---------------------------- MODULE Spec2Model ----------------------------
(***************************************************************************)
(* Model of the mindwrite e-paper streaming firmware:                      *)
(*   - the receive loop of main() in src/src/mindwrite_epd_stream.cpp      *)
(*     (sync on "MWF1", length, payload, CRC-32, dispatch, ACK);           *)
(*   - the SSD1683/GDEY0579T93 panel driver in                             *)
(*     src/src/epd/ssd1683_gdey0579t93.cpp.                                *)
(*                                                                         *)
(* The panel geometry is scaled: the real panel has 50 byte columns per    *)
(* controller and 272 rows; the model keeps every relation between the     *)
(* geometry constants (one overlap column, WIDTH = 8 * BYTES_PER_ROW,      *)
(* FRAME_BYTES = BYTES_PER_ROW * HEIGHT, buffer of FRAME_BYTES + 9) and    *)
(* takes the number of columns per controller and the number of rows from  *)
(* the bounds HalfCols and Rows.                                           *)
(***************************************************************************)
EXTENDS Integers, Sequences, FiniteSets, TLC

(* ------------------------------ bounds -------------------------------- *)

\* byte columns per controller (the panel: 50)
HalfCols == 2
\* pixel rows (the panel: 272)
Rows == 2
\* transmissions the host makes in one run of Spec
MaxSends == 2

(* --------------------------- panel geometry --------------------------- *)

MASTER_COLS == HalfCols
SLAVE_COLS == HalfCols
SLAVE_START == MASTER_COLS - 1
WIDTH == 8 * (MASTER_COLS + SLAVE_COLS - 1)
HEIGHT == Rows
BYTES_PER_ROW == (WIDTH + 7) \div 8
FRAME_BYTES == BYTES_PER_ROW * HEIGHT
EPD_W == WIDTH
EPD_H == HEIGHT
\* the literal 49 of show_partial_window: last master column
MasterLast == MASTER_COLS - 1
\* the literal 98 of show_partial_window: last global column
GlobalLast == BYTES_PER_ROW - 1
\* the literal 0x31: slave-local X of global column SLAVE_START
SlaveXMax == SLAVE_COLS - 1
\* size of payload_buf
PAYLOAD_CAP == FRAME_BYTES + 9

FLAG_FORCE_FULL == 1
FLAG_RECT == 2
INVERT_BYTES == FALSE
BIT_REVERSE == FALSE

\* the two constexpr flags the driver was built with: the comment above them
\* invites a rebuild with either set, so the setting is part of the state
VARIABLE build

Settings == [INVERT_BYTES : BOOLEAN, BIT_REVERSE : BOOLEAN]
DefaultBuild == [INVERT_BYTES |-> INVERT_BYTES, BIT_REVERSE |-> BIT_REVERSE]

(* ------------------------- integers and bytes ------------------------- *)

U8(x) == x % 256
U16(x) == x % 65536

\* x ^ y and x & y of two 4-bit values, tabulated: row x + 1, column y + 1
Xor4 ==
<<
    <<0, 1, 2, 3, 4, 5, 6, 7, 8, 9, 10, 11, 12, 13, 14, 15>>,
    <<1, 0, 3, 2, 5, 4, 7, 6, 9, 8, 11, 10, 13, 12, 15, 14>>,
    <<2, 3, 0, 1, 6, 7, 4, 5, 10, 11, 8, 9, 14, 15, 12, 13>>,
    <<3, 2, 1, 0, 7, 6, 5, 4, 11, 10, 9, 8, 15, 14, 13, 12>>,
    <<4, 5, 6, 7, 0, 1, 2, 3, 12, 13, 14, 15, 8, 9, 10, 11>>,
    <<5, 4, 7, 6, 1, 0, 3, 2, 13, 12, 15, 14, 9, 8, 11, 10>>,
    <<6, 7, 4, 5, 2, 3, 0, 1, 14, 15, 12, 13, 10, 11, 8, 9>>,
    <<7, 6, 5, 4, 3, 2, 1, 0, 15, 14, 13, 12, 11, 10, 9, 8>>,
    <<8, 9, 10, 11, 12, 13, 14, 15, 0, 1, 2, 3, 4, 5, 6, 7>>,
    <<9, 8, 11, 10, 13, 12, 15, 14, 1, 0, 3, 2, 5, 4, 7, 6>>,
    <<10, 11, 8, 9, 14, 15, 12, 13, 2, 3, 0, 1, 6, 7, 4, 5>>,
    <<11, 10, 9, 8, 15, 14, 13, 12, 3, 2, 1, 0, 7, 6, 5, 4>>,
    <<12, 13, 14, 15, 8, 9, 10, 11, 4, 5, 6, 7, 0, 1, 2, 3>>,
    <<13, 12, 15, 14, 9, 8, 11, 10, 5, 4, 7, 6, 1, 0, 3, 2>>,
    <<14, 15, 12, 13, 10, 11, 8, 9, 6, 7, 4, 5, 2, 3, 0, 1>>,
    <<15, 14, 13, 12, 11, 10, 9, 8, 7, 6, 5, 4, 3, 2, 1, 0>> >>

And4 ==
<<
    <<0, 0, 0, 0, 0, 0, 0, 0, 0, 0, 0, 0, 0, 0, 0, 0>>,
    <<0, 1, 0, 1, 0, 1, 0, 1, 0, 1, 0, 1, 0, 1, 0, 1>>,
    <<0, 0, 2, 2, 0, 0, 2, 2, 0, 0, 2, 2, 0, 0, 2, 2>>,
    <<0, 1, 2, 3, 0, 1, 2, 3, 0, 1, 2, 3, 0, 1, 2, 3>>,
    <<0, 0, 0, 0, 4, 4, 4, 4, 0, 0, 0, 0, 4, 4, 4, 4>>,
    <<0, 1, 0, 1, 4, 5, 4, 5, 0, 1, 0, 1, 4, 5, 4, 5>>,
    <<0, 0, 2, 2, 4, 4, 6, 6, 0, 0, 2, 2, 4, 4, 6, 6>>,
    <<0, 1, 2, 3, 4, 5, 6, 7, 0, 1, 2, 3, 4, 5, 6, 7>>,
    <<0, 0, 0, 0, 0, 0, 0, 0, 8, 8, 8, 8, 8, 8, 8, 8>>,
    <<0, 1, 0, 1, 0, 1, 0, 1, 8, 9, 8, 9, 8, 9, 8, 9>>,
    <<0, 0, 2, 2, 0, 0, 2, 2, 8, 8, 10, 10, 8, 8, 10, 10>>,
    <<0, 1, 2, 3, 0, 1, 2, 3, 8, 9, 10, 11, 8, 9, 10, 11>>,
    <<0, 0, 0, 0, 4, 4, 4, 4, 8, 8, 8, 8, 12, 12, 12, 12>>,
    <<0, 1, 0, 1, 4, 5, 4, 5, 8, 9, 8, 9, 12, 13, 12, 13>>,
    <<0, 0, 2, 2, 4, 4, 6, 6, 8, 8, 10, 10, 12, 12, 14, 14>>,
    <<0, 1, 2, 3, 4, 5, 6, 7, 8, 9, 10, 11, 12, 13, 14, 15>> >>

\* a & b and a ^ b of two 16-bit values, nibble by nibble
BitAnd(a, b) ==
    And4[(a % 16) + 1][(b % 16) + 1]
    + 16 * And4[((a \div 16) % 16) + 1][((b \div 16) % 16) + 1]
    + 256 * And4[((a \div 256) % 16) + 1][((b \div 256) % 16) + 1]
    + 4096 * And4[((a \div 4096) % 16) + 1][((b \div 4096) % 16) + 1]

BitXor(a, b) ==
    Xor4[(a % 16) + 1][(b % 16) + 1]
    + 16 * Xor4[((a \div 16) % 16) + 1][((b \div 16) % 16) + 1]
    + 256 * Xor4[((a \div 256) % 16) + 1][((b \div 256) % 16) + 1]
    + 4096 * Xor4[((a \div 4096) % 16) + 1][((b \div 4096) % 16) + 1]

\* A uint32_t is the pair <<high half, low half>> of 16-bit words (the checker's
\* integers are narrower than 32 bits unsigned).
U32Of(n) == <<0, n>>
U32Xor(a, b) == <<BitXor(a[1], b[1]), BitXor(a[2], b[2])>>
U32And(a, b) == <<BitAnd(a[1], b[1]), BitAnd(a[2], b[2])>>
U32Shr1(a) == <<a[1] \div 2, (a[2] \div 2) + 32768 * (a[1] % 2)>>
\* -(x) for x in {0, 1}
U32Neg01(x) == IF x = 0 THEN <<0, 0>> ELSE <<65535, 65535>>
U32Not(a) == <<65535 - a[1], 65535 - a[2]>>
U32Gt(a, n) == a[1] > 0 \/ a[2] > n
\* the value of a uint32_t known to be below 65536
U32Lo(a) == a[2]

\* read of a C array through a pointer: an index past the end is undefined
OOB == 0 - 1
Rd(buf, i) == IF i >= 0 /\ i < Len(buf) THEN buf[i + 1] ELSE OOB

\* buf + off as a pointer: the array seen from offset off
Ptr(buf, off) == SubSeq(buf, off + 1, Len(buf))

Fill(n, v) == [i \in 1..n |-> v]

(* ------------------------------- CRC-32 -------------------------------- *)

\* 0xEDB88320
CRC_POLY == <<60856, 33568>>
U32_ONES == <<65535, 65535>>

\* inner loop of crc32_ieee, k iterations:
\*   mask = -(crc & 1); crc = (crc >> 1) ^ (POLY & mask)
RECURSIVE crc32_bits(_, _)
crc32_bits(crc, k) ==
    IF k = 0 THEN crc
    ELSE CHOOSE r \in { U32Xor(U32Shr1(c), U32And(CRC_POLY, U32Neg01(BitAnd(c[2], 1)))) :
                         c \in {crc32_bits(crc, k - 1)} } : TRUE

\* outer loop of crc32_ieee over data[lo .. hi), entered with crc: the bytes are
\* taken in order; the range is halved only to keep the evaluation shallow
RECURSIVE crc32_loop(_, _, _, _)
crc32_loop(data, lo, hi, crc) ==
    IF hi <= lo THEN crc
    ELSE IF hi = lo + 1 THEN crc32_bits(U32Xor(crc, U32Of(Rd(data, lo))), 8)
    ELSE LET mid == (lo + hi) \div 2
         IN  CHOOSE r \in { crc32_loop(data, mid, hi, c) :
                            c \in {crc32_loop(data, lo, mid, crc)} } : TRUE

\* the loop without the final complement
\* crc32_ieee without the final inversion
crc32_ieee_nofinal(data, len) == crc32_loop(data, 0, len, U32_ONES)

crc32_ieee(data, len) == U32Not(crc32_loop(data, 0, len, U32_ONES))

\* crc32.cpp, crc32_update: the same polynomial with a conditional, i iterations
RECURSIVE crc32_update(_, _, _)
crc32_update(crc, data, i) ==
    IF i = 0 THEN U32Xor(crc, U32Of(data))
    ELSE CHOOSE r \in { IF c[2] % 2 = 1 THEN U32Xor(U32Shr1(c), CRC_POLY) ELSE U32Shr1(c) :
                         c \in {crc32_update(crc, data, i - 1)} } : TRUE

\* crc32.cpp, the loop of crc32_compute over data[lo .. hi)
RECURSIVE crc32_compute_range(_, _, _, _)
crc32_compute_range(data, lo, hi, crc) ==
    IF hi <= lo THEN crc
    ELSE IF hi = lo + 1 THEN crc32_update(crc, Rd(data, lo), 8)
    ELSE LET mid == (lo + hi) \div 2
         IN  CHOOSE r \in { crc32_compute_range(data, mid, hi, c) :
                            c \in {crc32_compute_range(data, lo, mid, crc)} } : TRUE

crc32_compute(data) ==
    U32Xor(crc32_compute_range(data, 0, Len(data), U32_ONES), U32_ONES)

\* a decoder that reads the four bytes most significant first
\* u32le reading its four bytes most significant first
u32le_swapped(b) == <<b[2] + 256 * b[1], b[4] + 256 * b[3]>>

u32le(b) == <<b[3] + 256 * b[4], b[1] + 256 * b[2]>>

u16le(p, off) == Rd(p, off) + 256 * Rd(p, off + 1)

(* ------------------------------ events -------------------------------- *)
(* What the firmware does to the outside is a sequence of events:          *)
(*   <<"spi", dc, b>>   CS asserted, DC at level dc, byte b written, CS    *)
(*                      released (cmd_ has dc = 0, data_ has dc = 1)       *)
(*   <<"rst", l, 0>>    RST driven to level l                              *)
(*   <<"wait", ms, r>>  wait_idle(ms) returned r (1 idle, 0 timed out)     *)
(*   <<"tx", 0, b>>     putchar_raw(b)                                     *)
(*   <<"flush", 0, 0>>  stdio_flush()                                      *)
(***************************************************************************)

cmd_(c) == << <<"spi", 0, c>> >>

data_(d) == << <<"spi", 1, d>> >>

reset_ == << <<"rst", 0, 0>>, <<"rst", 1, 0>> >>

\* wait_idle seen from its caller: bz[k] tells whether the k-th wait of the
\* operation finds BUSY idle before its timeout
wait_idle(timeout_ms, bz, k) == << <<"wait", timeout_ms, IF bz[k] THEN 1 ELSE 0>> >>

IsCmd(e) == e[1] = "spi" /\ e[2] = 0
IsData(e) == e[1] = "spi" /\ e[2] = 1
IsSpi(e) == e[1] = "spi"
IsWait(e) == e[1] = "wait"
IsTx(e) == e[1] = "tx"

bitrev8_(x0) ==
    LET x1 == U8((x0 \div 16) + (x0 * 16))
        x2 == U8((BitAnd(x1, 204) \div 4) + (BitAnd(x1, 51) * 4))
        x3 == U8((BitAnd(x2, 170) \div 2) + (BitAnd(x2, 85) * 2))
    IN  x3

xform_(b) ==
    IF b = OOB THEN OOB
    ELSE LET b1 == IF build.BIT_REVERSE THEN bitrev8_(b) ELSE b
         IN  IF build.INVERT_BYTES THEN 255 - b1 ELSE b1

Lo8(v) == v % 256
Hi8(v) == (v \div 256) % 256

\* a refresh that is not triggered once a wait_idle before it has timed out
update_full_unlessTimedOut(bz, k) ==
    IF \E j \in 1..(k - 1) : ~bz[j] THEN << >>
    ELSE cmd_(34) \o data_(247) \o cmd_(32) \o wait_idle(20000, bz, k)

update_full_(bz, k) ==
    cmd_(34) \o data_(247) \o cmd_(32) \o wait_idle(20000, bz, k)

update_partial_(bz, k) ==
    cmd_(34) \o data_(255) \o cmd_(32) \o wait_idle(20000, bz, k)

\* init(): the pins, the hardware reset, SWRESET and the two settings
init(bz, k) ==
    reset_ \o cmd_(18) \o wait_idle(5000, bz, k)
    \o cmd_(60) \o data_(128) \o cmd_(24) \o data_(128)

master_addr_setup_ ==
    cmd_(17) \o data_(5)
    \o cmd_(68) \o data_(0) \o data_(MasterLast)
    \o cmd_(69) \o data_(Lo8(HEIGHT - 1)) \o data_(Hi8(HEIGHT - 1))
                \o data_(0) \o data_(0)
    \o cmd_(78) \o data_(0)
    \o cmd_(79) \o data_(Lo8(HEIGHT - 1)) \o data_(Hi8(HEIGHT - 1))

slave_addr_setup_ ==
    cmd_(145) \o data_(4)
    \o cmd_(196) \o data_(SlaveXMax) \o data_(0)
    \o cmd_(197) \o data_(Lo8(HEIGHT - 1)) \o data_(Hi8(HEIGHT - 1))
                 \o data_(0) \o data_(0)
    \o cmd_(206) \o data_(SlaveXMax)
    \o cmd_(207) \o data_(Lo8(HEIGHT - 1)) \o data_(Hi8(HEIGHT - 1))

\* a master window whose Y range and cursor start at the top row
master_window_topFirst(x_start, x_end, y_top, y_bottom) ==
    cmd_(17) \o data_(5)
    \o cmd_(68) \o data_(x_start) \o data_(x_end)
    \o cmd_(69) \o data_(Lo8(y_top)) \o data_(Hi8(y_top))
                \o data_(Lo8(y_bottom)) \o data_(Hi8(y_bottom))
    \o cmd_(78) \o data_(x_start)
    \o cmd_(79) \o data_(Lo8(y_top)) \o data_(Hi8(y_top))

master_window_(x_start, x_end, y_top, y_bottom) ==
    cmd_(17) \o data_(5)
    \o cmd_(68) \o data_(x_start) \o data_(x_end)
    \o cmd_(69) \o data_(Lo8(y_bottom)) \o data_(Hi8(y_bottom))
                \o data_(Lo8(y_top)) \o data_(Hi8(y_top))
    \o cmd_(78) \o data_(x_start)
    \o cmd_(79) \o data_(Lo8(y_bottom)) \o data_(Hi8(y_bottom))

slave_window_(slave_x_start, slave_x_end, y_top, y_bottom) ==
    cmd_(145) \o data_(4)
    \o cmd_(196) \o data_(slave_x_start) \o data_(slave_x_end)
    \o cmd_(197) \o data_(Lo8(y_bottom)) \o data_(Hi8(y_bottom))
                 \o data_(Lo8(y_top)) \o data_(Hi8(y_top))
    \o cmd_(206) \o data_(slave_x_start)
    \o cmd_(207) \o data_(Lo8(y_bottom)) \o data_(Hi8(y_bottom))

\* The two nested loops of the window writers: gcol ascending from c0 to c1,
\* yy descending from y_bottom to y_top; the k-th iteration (from 0).
LoopCols(c0, c1) == IF c1 >= c0 THEN c1 - c0 + 1 ELSE 0
LoopRows(y_top, y_bottom) == IF y_bottom >= y_top THEN y_bottom - y_top + 1 ELSE 0
LoopCount(c0, c1, y_top, y_bottom) == LoopCols(c0, c1) * LoopRows(y_top, y_bottom)
LoopCol(c0, y_top, y_bottom, k) == c0 + (k \div LoopRows(y_top, y_bottom))
LoopRow(y_top, y_bottom, k) == y_bottom - (k % LoopRows(y_top, y_bottom))

\* index of rect_new read for (gcol, yy): local_y * rect_wb + local_xb
RectIndex(gcol, yy, rect_xb, rect_y, rect_wb) ==
    U16(yy - rect_y) * rect_wb + U16(gcol - rect_xb)

\* index of old_full read for (gcol, yy)
OldIndex(gcol, yy) == U16(yy) * BYTES_PER_ROW + U16(gcol)

WindowNew(c0, c1, y_top, y_bottom, rect_xb, rect_y, rect_wb, rect_new) ==
    [k \in 1..LoopCount(c0, c1, y_top, y_bottom) |->
        <<"spi", 1,
          xform_(Rd(rect_new,
                    RectIndex(LoopCol(c0, y_top, y_bottom, k - 1),
                              LoopRow(y_top, y_bottom, k - 1),
                              rect_xb, rect_y, rect_wb)))>>]

WindowOld(c0, c1, y_top, y_bottom, old_full) ==
    [k \in 1..LoopCount(c0, c1, y_top, y_bottom) |->
        <<"spi", 1,
          xform_(Rd(old_full,
                    OldIndex(LoopCol(c0, y_top, y_bottom, k - 1),
                             LoopRow(y_top, y_bottom, k - 1))))>>]

write_master_window_new_old_(x_start, x_end, y_top, y_bottom, rect_xb, rect_y, rect_wb, rect_new, old_full) ==
    cmd_(36)
    \o WindowNew(x_start, x_end, y_top, y_bottom, rect_xb, rect_y, rect_wb, rect_new)
    \o cmd_(38)
    \o WindowOld(x_start, x_end, y_top, y_bottom, old_full)

write_slave_window_new_old_(gcol_start, gcol_end, y_top, y_bottom, rect_xb, rect_y, rect_wb, rect_new, old_full) ==
    cmd_(164)
    \o WindowNew(gcol_start, gcol_end, y_top, y_bottom, rect_xb, rect_y, rect_wb, rect_new)
    \o cmd_(166)
    \o WindowOld(gcol_start, gcol_end, y_top, y_bottom, old_full)

\* a split that gives the overlap column to the master only
PwGeom_noOverlap(x, y, w0, h0) ==
    LET w == IF x + w0 > WIDTH THEN U16(WIDTH - x) ELSE w0
        h == IF y + h0 > HEIGHT THEN U16(HEIGHT - y) ELSE h0
        rect_xb == U16(x \div 8)
        rect_wb == U16(w \div 8)
        x_endb == U16(rect_xb + rect_wb - 1)
    IN  [ w |-> w, h |-> h, rect_xb |-> rect_xb, rect_wb |-> rect_wb,
          y_top |-> y, y_bottom |-> U16(y + h - 1), x_endb |-> x_endb,
          do_master |-> ~(rect_xb > MasterLast),
          m_start |-> rect_xb,
          m_end |-> IF x_endb > MasterLast THEN MasterLast ELSE x_endb,
          do_slave |-> ~(x_endb < SLAVE_START + 1),
          s_start |-> IF rect_xb < SLAVE_START + 1 THEN SLAVE_START + 1 ELSE rect_xb,
          s_end |-> IF x_endb > GlobalLast THEN GlobalLast ELSE x_endb ]

\* the geometry show_partial_window works with once its checks have passed
PwGeom(x, y, w0, h0) ==
    LET w == IF x + w0 > WIDTH THEN U16(WIDTH - x) ELSE w0
        h == IF y + h0 > HEIGHT THEN U16(HEIGHT - y) ELSE h0
        rect_xb == U16(x \div 8)
        rect_wb == U16(w \div 8)
        x_endb == U16(rect_xb + rect_wb - 1)
    IN  [ w |-> w, h |-> h, rect_xb |-> rect_xb, rect_wb |-> rect_wb,
          y_top |-> y, y_bottom |-> U16(y + h - 1), x_endb |-> x_endb,
          do_master |-> ~(rect_xb > MasterLast),
          m_start |-> rect_xb,
          m_end |-> IF x_endb > MasterLast THEN MasterLast ELSE x_endb,
          do_slave |-> ~(x_endb < SLAVE_START),
          s_start |-> IF rect_xb < SLAVE_START THEN SLAVE_START ELSE rect_xb,
          s_end |-> IF x_endb > GlobalLast THEN GlobalLast ELSE x_endb ]

\* a null buffer pointer
NULL == << >>

\* the checks of show_partial_window without the one of inited_
PwRejects_noInit(inited, x, y, w, h) ==
    \/ BitAnd(x, 7) # 0 \/ BitAnd(w, 7) # 0
    \/ w = 0 \/ h = 0
    \/ x >= WIDTH \/ y >= HEIGHT

PwRejects(inited, x, y, w, h) ==
    \/ ~inited
    \/ BitAnd(x, 7) # 0 \/ BitAnd(w, 7) # 0
    \/ w = 0 \/ h = 0
    \/ x >= WIDTH \/ y >= HEIGHT

\* a slave column counted up from the overlap column
slave_x_unmirrored(gcol) == U8(gcol - SLAVE_START)

\* global->slave x mapping: slave_x = 0x31 - (gcol - 49)
slave_x(gcol) == U8(SlaveXMax - U8(gcol - SLAVE_START))

show_partial_window(inited, x, y, w, h, rect_new, old_full, bz, k) ==
    IF rect_new = NULL \/ old_full = NULL \/ PwRejects(inited, x, y, w, h) THEN << >>
    ELSE
    LET g == PwGeom(x, y, w, h)
        km == IF g.do_master THEN 1 ELSE 0
        ks == IF g.do_slave THEN 1 ELSE 0
        slave_x_start == slave_x(g.s_start)
        slave_x_end == slave_x(g.s_end)
    IN  (IF g.do_master
         THEN master_window_(U8(g.m_start), U8(g.m_end), g.y_top, g.y_bottom)
              \o wait_idle(5000, bz, k + 1)
              \o write_master_window_new_old_(U8(g.m_start), U8(g.m_end),
                                              g.y_top, g.y_bottom,
                                              g.rect_xb, y, g.rect_wb,
                                              rect_new, old_full)
         ELSE << >>)
        \o
        (IF g.do_slave
         THEN slave_window_(slave_x_start, slave_x_end, g.y_top, g.y_bottom)
              \o wait_idle(5000, bz, k + km + 1)
              \o write_slave_window_new_old_(U8(g.s_start), U8(g.s_end),
                                             g.y_top, g.y_bottom,
                                             g.rect_xb, y, g.rect_wb,
                                             rect_new, old_full)
         ELSE << >>)
        \o update_partial_(bz, k + km + ks + 1)

show_partial_fullscreen(inited, new_frame, old_frame, bz, k) ==
    IF new_frame = NULL \/ old_frame = NULL THEN << >>
    ELSE show_partial_window(inited, 0, 0, WIDTH, HEIGHT, new_frame, old_frame, bz, k)

\* FullNew with src_row = y, the rows not mirrored
FullNew_unflipped(frame, c0, ncols) ==
    [k \in 1..(ncols * HEIGHT) |->
        <<"spi", 1,
          xform_(Rd(frame, ((k - 1) % HEIGHT) * BYTES_PER_ROW
                           + c0 + ((k - 1) \div HEIGHT)))>>]

\* the NEW bytes of one half of a full refresh: col from c0 for ncols columns,
\* src_row = HEIGHT - 1 - y for y = 0 .. HEIGHT - 1
FullNew(frame, c0, ncols) ==
    [k \in 1..(ncols * HEIGHT) |->
        <<"spi", 1,
          xform_(Rd(frame, (HEIGHT - 1 - ((k - 1) % HEIGHT)) * BYTES_PER_ROW
                           + c0 + ((k - 1) \div HEIGHT)))>>]

\* an OLD plane filled with white
FullOld_white(ncols) == [k \in 1..(ncols * HEIGHT) |-> <<"spi", 1, 255>>]

FullOld(ncols) == [k \in 1..(ncols * HEIGHT) |-> <<"spi", 1, 0>>]

show_full_fullscreen(inited, frame, bz, k) ==
    IF ~inited \/ frame = NULL THEN << >>
    ELSE master_addr_setup_
         \o wait_idle(5000, bz, k + 1)
         \o cmd_(36) \o FullNew(frame, 0, MASTER_COLS)
         \o cmd_(38) \o FullOld(MASTER_COLS)
         \o slave_addr_setup_
         \o wait_idle(5000, bz, k + 2)
         \o cmd_(164) \o FullNew(frame, SLAVE_START, SLAVE_COLS)
         \o cmd_(166) \o FullOld(SLAVE_COLS)
         \o update_full_(bz, k + 3)

clear_to_white(inited, bz, k) ==
    show_full_fullscreen(inited, Fill(FRAME_BYTES, 255), bz, k)

\* number of wait_idle calls in a sequence of events
Waits(ev) == Cardinality({i \in 1..Len(ev) : IsWait(ev[i])})

(* ------------------------------ the panel ------------------------------ *)
(* The two SSD1683 controllers as the driver's comments describe them: each *)
(* has an X/Y window, an address counter and a NEW RAM; data entry mode 0x05 *)
(* (master) counts Y down and then X up, 0x04 (slave) counts Y down and then *)
(* X down; the counter wraps inside the window. Slave commands are the      *)
(* master's plus 0x80. Command 0x20 shows the NEW RAM of both controllers.  *)
(***************************************************************************)

RamCells == (0..(HalfCols - 1)) \X (0..(HEIGHT - 1))

CtlReset(mode) ==
    [ mode |-> mode, xs |-> 0, xe |-> 0, ys |-> 0, ye |-> 0, cx |-> 0, cy |-> 0 ]

PanelReset ==
    [ m |-> CtlReset(5), s |-> CtlReset(4),
      mNew |-> [c \in RamCells |-> 0], sNew |-> [c \in RamCells |-> 0],
      shownM |-> [c \in RamCells |-> 0], shownS |-> [c \in RamCells |-> 0],
      fault |-> FALSE ]

ArgAt(args, i) == IF i <= Len(args) THEN args[i] ELSE 0

XDir(ctl) == IF ctl.mode % 2 = 1 THEN 1 ELSE 0 - 1
WinCols(ctl) == ((ctl.xe - ctl.xs) * XDir(ctl)) + 1
WinRows(ctl) == (ctl.ys - ctl.ye) + 1
WinSize(ctl) == WinCols(ctl) * WinRows(ctl)
\* position of cell (x, y) in the order the counter visits the window
WinOffset(ctl, x, y) == ((x - ctl.xs) * XDir(ctl)) * WinRows(ctl) + (ctl.ys - y)
InWindow(ctl, x, y) ==
    /\ (x - ctl.xs) * XDir(ctl) >= 0 /\ (ctl.xe - x) * XDir(ctl) >= 0
    /\ y <= ctl.ys /\ y >= ctl.ye
\* the window and the counter address RAM that exists
CtlSane(ctl) ==
    /\ WinCols(ctl) >= 1 /\ WinRows(ctl) >= 1
    /\ <<ctl.xs, ctl.ys>> \in RamCells /\ <<ctl.xe, ctl.ye>> \in RamCells
    /\ InWindow(ctl, ctl.cx, ctl.cy)

\* n data bytes after a RAM write command: byte k (from 0) goes to the cell at
\* offset (start + k) mod size; a cell written twice keeps the later byte
BurstRam(ctl, ram, args) ==
    LET n == Len(args)
        size == WinSize(ctl)
        s0 == WinOffset(ctl, ctl.cx, ctl.cy)
    IN  [c \in RamCells |->
            IF ~InWindow(ctl, c[1], c[2]) THEN ram[c]
            ELSE LET d == (WinOffset(ctl, c[1], c[2]) - s0 + size) % size
                 IN  IF d >= n THEN ram[c]
                     ELSE args[d + size * ((n - 1 - d) \div size) + 1]]

BurstCtl(ctl, n) ==
    LET size == WinSize(ctl)
        o == (WinOffset(ctl, ctl.cx, ctl.cy) + n) % size
    IN  [ctl EXCEPT !.cx = ctl.xs + XDir(ctl) * (o \div WinRows(ctl)),
                    !.cy = ctl.ys - (o % WinRows(ctl))]

\* one controller's reaction to command c (master numbering) with its data
CtlCmd(ctl, c, args) ==
    IF c = 17 THEN [ctl EXCEPT !.mode = ArgAt(args, 1)]
    ELSE IF c = 68 THEN [ctl EXCEPT !.xs = ArgAt(args, 1), !.xe = ArgAt(args, 2)]
    ELSE IF c = 69 THEN [ctl EXCEPT !.ys = ArgAt(args, 1) + 256 * ArgAt(args, 2),
                                    !.ye = ArgAt(args, 3) + 256 * ArgAt(args, 4)]
    ELSE IF c = 78 THEN [ctl EXCEPT !.cx = ArgAt(args, 1)]
    ELSE IF c = 79 THEN [ctl EXCEPT !.cy = ArgAt(args, 1) + 256 * ArgAt(args, 2)]
    ELSE IF c \in {36, 38} /\ CtlSane(ctl) THEN BurstCtl(ctl, Len(args))
    ELSE ctl

PanelCmd(p, c, args) ==
    IF c = 32 THEN [p EXCEPT !.shownM = p.mNew, !.shownS = p.sNew]
    ELSE IF c \in {17, 68, 69, 78, 79, 38} THEN [p EXCEPT !.m = CtlCmd(p.m, c, args)]
    ELSE IF c = 36
    THEN IF CtlSane(p.m)
         THEN [p EXCEPT !.mNew = BurstRam(p.m, p.mNew, args),
                        !.m = CtlCmd(p.m, c, args)]
         ELSE [p EXCEPT !.fault = TRUE]
    ELSE IF c \in {145, 196, 197, 206, 207, 166}
    THEN [p EXCEPT !.s = CtlCmd(p.s, c - 128, args)]
    ELSE IF c = 164
    THEN IF CtlSane(p.s)
         THEN [p EXCEPT !.sNew = BurstRam(p.s, p.sNew, args),
                        !.s = CtlCmd(p.s, c - 128, args)]
         ELSE [p EXCEPT !.fault = TRUE]
    ELSE p

\* number of data events that follow the command at position i
DataRun(ev, i) ==
    LET stops == {j \in (i + 1)..Len(ev) : ~IsData(ev[j])}
    IN  IF stops = {} THEN Len(ev) - i
        ELSE (CHOOSE j \in stops : \A j2 \in stops : j <= j2) - i - 1

RECURSIVE PanelRun(_, _, _)
PanelRun(p, ev, i) ==
    IF i > Len(ev) THEN p
    ELSE IF ~IsCmd(ev[i]) THEN PanelRun(p, ev, i + 1)
    ELSE CHOOSE r \in { PanelRun(q, ev, i + n + 1) :
                        q \in { PanelCmd(p, ev[i][3], [k \in 1..n |-> ev[i + k][3]]) :
                                n \in {DataRun(ev, i)} },
                        n \in {DataRun(ev, i)} } : TRUE

\* the panel after the events ev[i ..]
PanelApply(p, ev, i) ==
    CHOOSE r \in { PanelRun(pv, evv, i) : pv \in {p}, evv \in {ev} } : TRUE

\* the panel shows frame: both controllers' shown RAM hold its (transformed)
\* bytes, column SLAVE_START in both
PanelShows(p, frame) ==
    /\ \A c \in RamCells :
          p.shownM[c] = xform_(frame[c[2] * BYTES_PER_ROW + c[1] + 1])
    /\ \A c \in RamCells :
          p.shownS[c] = xform_(frame[c[2] * BYTES_PER_ROW
                                     + SLAVE_START + (SlaveXMax - c[1]) + 1])

(* --------------------------- the receive loop -------------------------- *)

VARIABLES
    wire,         \* bytes the host has sent and getchar_timeout_us has not yet returned
    sent,         \* history: one record per host transmission (see Tx)
    sync,         \* uint8_t sync[4]
    pc,           \* where main's loop is: "seek", "len", "payload", "crc", "dispatch"
    rbuf,         \* len_b / crc_b: the bytes read_exact has stored so far
    len,          \* uint32_t len, once validated (below 65536)
    got,          \* read_exact's got while the payload is read
    payload_buf,  \* static uint8_t payload_buf[FRAME_BYTES + 9]
    prev_frame,   \* static uint8_t prev_frame[FRAME_BYTES]
    inited_,      \* the driver's inited_
    panel,        \* the two controllers (see PanelReset)
    serial_out,   \* every byte written to the serial output since the loop started
    log,          \* the events since the current transmission or driver call began
    elapsed,      \* ms since the read_exact in progress set its deadline
    pending,      \* bytes of the current transmission the host has not written yet
    call,         \* the last call of the driver's interface (see Called)
    wi,           \* the wait_idle call in progress (see WiCall)
    rx            \* the USBFrameReceiver object (see RxNew)

vars == <<wire, sent, sync, pc, rbuf, len, got, payload_buf, prev_frame,
          inited_, panel, serial_out, log, elapsed, pending, call, wi, rx, build>>

MAGIC == <<77, 87, 70, 49>>

\* a sync window that is emptied when four bytes did not match
sync_shift_reset(s, c) == IF s[1] # 0 THEN <<0, 0, 0, c>> ELSE <<s[2], s[3], s[4], c>>

\* sync[0] = sync[1]; sync[1] = sync[2]; sync[2] = sync[3]; sync[3] = c
sync_shift(s, c) == <<s[2], s[3], s[4], c>>

MagicMatch(s) == s[1] = 77 /\ s[2] = 87 /\ s[3] = 70 /\ s[4] = 49

\* a length check that lets one byte more than the buffer through
LenRejected_offByOne(l) == l = <<0, 0>> \/ U32Gt(l, FRAME_BYTES + 10)

\* len == 0 || len > FRAME_BYTES + 9
LenRejected(l) == l = <<0, 0>> \/ U32Gt(l, FRAME_BYTES + 9)

\* a CRC check that compares the low 16 bits only
CrcOk_low16(crc_b, buf, n) == u32le(crc_b)[2] = crc32_ieee(buf, n)[2]

\* want_crc == got_crc
CrcOk(crc_b, buf, n) == u32le(crc_b) = crc32_ieee(buf, n)

send_ok == << <<"tx", 0, 79>>, <<"tx", 0, 75>>, <<"flush", 0, 0>> >>

\* send_ok before the driver calls
AckFirst(ev) == send_ok \o ev

\* the driver calls of one frame, then send_ok
ThenAck(ev) == ev \o send_ok

\* the header checks without w == 0 || h == 0
RectRejects_noZero(x, y, w, h) ==
    \/ BitAnd(x, 7) # 0 \/ BitAnd(w, 7) # 0
    \/ x >= EPD_W \/ y >= EPD_H

\* the three header checks of the rect branch
RectRejects(x, y, w, h) ==
    \/ BitAnd(x, 7) # 0 \/ BitAnd(w, 7) # 0
    \/ w = 0 \/ h = 0
    \/ x >= EPD_W \/ y >= EPD_H

\* w left as the header gives it
ClampW_none(x, w) == w

ClampW(x, w) == IF x + w > EPD_W THEN U16(EPD_W - x) ELSE w

\* h left as the header gives it
ClampH_none(y, h) == h

ClampH(y, h) == IF y + h > EPD_H THEN U16(EPD_H - y) ELSE h

\* The patch loop: memcpy(prev_frame + (y + yy) * BYTES_PER_ROW + x / 8,
\* rect + yy * wb, wb) for yy = 0 .. h - 1. Byte i (from 0) of the result; a later
\* memcpy overwrites an earlier one.
PatchRows(i, x, y, wb, h) ==
    {yy \in 0..(h - 1) :
        /\ i - ((y + yy) * BYTES_PER_ROW + (x \div 8)) >= 0
        /\ i - ((y + yy) * BYTES_PER_ROW + (x \div 8)) < wb}

PatchByte(prev, i, x, y, wb, h, rect) ==
    LET rows == PatchRows(i, x, y, wb, h)
    IN  IF rows = {} THEN prev[i + 1]
        ELSE LET yy == CHOOSE r \in rows : \A r2 \in rows : r2 <= r
             IN  Rd(rect, yy * wb + (i - ((y + yy) * BYTES_PER_ROW + (x \div 8))))

\* the patch loop with src = rect + yy * BYTES_PER_ROW
PatchRect_rowStride(prev, x, y, wb, h, rect) ==
    [i \in 1..FRAME_BYTES |->
        LET rows == PatchRows(i - 1, x, y, wb, h)
        IN  IF rows = {} THEN prev[i]
            ELSE LET yy == CHOOSE r \in rows : \A r2 \in rows : r2 <= r
                 IN  Rd(rect, yy * BYTES_PER_ROW
                              + ((i - 1) - ((y + yy) * BYTES_PER_ROW + (x \div 8))))]

PatchRect(prev, x, y, wb, h, rect) ==
    [i \in 1..FRAME_BYTES |-> PatchByte(prev, i - 1, x, y, wb, h, rect)]

\* a memcpy of the patch loop writes past the end of prev_frame
PatchOverruns(x, y, wb, h) ==
    wb > 0 /\ h > 0 /\ (y + h - 1) * BYTES_PER_ROW + (x \div 8) + wb > FRAME_BYTES

\* a dropped frame that is acknowledged all the same
NoOp_acks(prev) == [ack |-> TRUE, ev |-> << >>, prev |-> prev, fault |-> FALSE]

\* a dropped frame: no driver call, prev_frame as it was, no send_ok
NoOp(prev) == [ack |-> FALSE, ev |-> << >>, prev |-> prev, fault |-> FALSE]

\* a partial update that is handed the image as it will be after this frame
PartialOld_patched(prev, next) == next

\* the old_full argument of a partial update: prev_frame at the time of the
\* call, which is before the memcpy (line 191) or the patch (lines 244-249)
PartialOld(prev, next) == prev

\* lines 171-192: a payload without FLAG_RECT
FullBranch(buf, n, prev, inited, force_full, bz) ==
    IF n # 1 + FRAME_BYTES THEN NoOp(prev)
    ELSE LET frame_ptr == Ptr(buf, 1)
         IN  [ ack |-> TRUE,
               ev |-> IF force_full
                      THEN clear_to_white(inited, bz, 0)
                           \o show_full_fullscreen(inited, frame_ptr, bz,
                                                   Waits(clear_to_white(inited, bz, 0)))
                      ELSE show_partial_fullscreen(inited, frame_ptr,
                               PartialOld(prev, SubSeq(frame_ptr, 1, FRAME_BYTES)), bz, 0),
               prev |-> SubSeq(frame_ptr, 1, FRAME_BYTES),
               fault |-> FALSE ]

\* a length check that only refuses payloads that are too short
RectLenRejects_short(n, need) == n < need

\* len != need
RectLenRejects(n, need) == n # need

\* lines 193-250: a payload with FLAG_RECT
RectBranch(buf, n, prev, inited, force_full, bz) ==
    IF n < 1 + 8 THEN NoOp(prev)
    ELSE
    LET p == Ptr(buf, 1)
        x == u16le(p, 0)
        y == u16le(p, 2)
        w0 == u16le(p, 4)
        h0 == u16le(p, 6)
        rect == Ptr(buf, 1 + 8)
    IN  IF RectRejects(x, y, w0, h0) THEN NoOp(prev)
        ELSE
        LET w == ClampW(x, w0)
            h == ClampH(y, h0)
            wb == U16(w \div 8)
            need == 1 + 8 + wb * h
        IN  IF RectLenRejects(n, need) THEN NoOp(prev)
            ELSE
            LET patched == PatchRect(prev, x, y, wb, h, rect)
            IN  [ ack |-> TRUE,
                  ev |-> IF force_full
                         THEN clear_to_white(inited, bz, 0)
                              \o show_full_fullscreen(inited, patched, bz,
                                                      Waits(clear_to_white(inited, bz, 0)))
                         ELSE show_partial_window(inited, x, y, w, h, rect,
                                                  PartialOld(prev, patched), bz, 0),
                  prev |-> patched,
                  fault |-> PatchOverruns(x, y, wb, h) ]

\* lines 167-253: from the flags byte to send_ok
\* a dispatch that clears the panel when it drops a frame
AppDispatch_clearsOnDrop(buf, n, prev, inited, bz) ==
    LET flags == Rd(buf, 0)
        force_full == BitAnd(flags, FLAG_FORCE_FULL) # 0
        is_rect == BitAnd(flags, FLAG_RECT) # 0
        r == IF ~is_rect THEN FullBranch(buf, n, prev, inited, force_full, bz)
             ELSE RectBranch(buf, n, prev, inited, force_full, bz)
    IN  [r EXCEPT !.ev = IF r.ack THEN ThenAck(r.ev) ELSE clear_to_white(inited, bz, 0)]

AppDispatch(buf, n, prev, inited, bz) ==
    LET flags == Rd(buf, 0)
        force_full == BitAnd(flags, FLAG_FORCE_FULL) # 0
        is_rect == BitAnd(flags, FLAG_RECT) # 0
        r == IF ~is_rect THEN FullBranch(buf, n, prev, inited, force_full, bz)
             ELSE RectBranch(buf, n, prev, inited, force_full, bz)
    IN  [r EXCEPT !.ev = IF r.ack THEN ThenAck(r.ev) ELSE r.ev]

\* BUSY during one dispatch: bz[k] for the k-th wait_idle (clear_to_white and
\* show_full wait three times each). Every wait finds BUSY idle, none does, or
\* exactly one times out.
WaitSlots == 1..(3 + 3)
BusyPlans ==
    {[k \in WaitSlots |-> k # j] : j \in {0} \cup WaitSlots}
    \cup {[k \in WaitSlots |-> FALSE]}
AllIdle == [k \in WaitSlots |-> TRUE]

(* ------------------------------- the host ------------------------------ *)

le16(v) == <<v % 256, (v \div 256) % 256>>
le32(v) == <<v % 256, (v \div 256) % 256, 0, 0>>
U32Bytes(a) == <<a[2] % 256, a[2] \div 256, a[1] % 256, a[1] \div 256>>

\* MWF1 || len_le32(P) || P || crc32_le32(P)
Framed(P) == MAGIC \o le32(Len(P)) \o P \o U32Bytes(crc32_compute(P))

\* byte i (from 1) of a stream with bit b flipped
FlipBit(bytes, i, b) ==
    [bytes EXCEPT ![i] = IF (@ \div (2 ^ b)) % 2 = 1 THEN @ - 2 ^ b ELSE @ + 2 ^ b]

\* One host transmission and what happened to it since:
\*   set, kind, P, bytes  what the host sent: kind "frame" is Framed(P), "flip" is
\*                        Framed(P) with one bit of P or of the CRC flipped,
\*                        "garbage" is anything else
\*   pre                  prev_frame when it was sent
\*   consumed             how many of its bytes the loop has read
\*   startPc              pc when its first byte was read ("none" before)
\*   timedOut             a read_exact timed out since
\*   dispatched           how often the loop reached the dispatch point since
\*   acks                 how many times send_ok ran since
\*   overrun              a memcpy of the patch loop wrote outside prev_frame
\*   outcome              the loop's last decision since: "none", "drop_len",
\*                        "drop_crc", "drop_timeout", "dispatch", "drop_app", "acked"
Tx(set, kind, P, bytes) ==
    [ set |-> set, kind |-> kind, P |-> P, bytes |-> bytes,
      pre |-> << >>, consumed |-> 0, startPc |-> "none", timedOut |-> FALSE,
      dispatched |-> 0, acks |-> 0, outcome |-> "none", overrun |-> FALSE,
      waited |-> 0 ]

Last == sent[Len(sent)]

White == Fill(FRAME_BYTES, 255)
PatFrame == [i \in 1..FRAME_BYTES |-> 16 + i]
RectPat(n) == [i \in 1..n |-> 160 + (i % 90)]

FullPayload(flags, frame) == <<flags>> \o frame

\* the rectangle bytes a host sends for a header: those of the clamped rectangle
HostRectCount(x, y, w, h) ==
    LET wc == IF x + w > WIDTH THEN (IF x < WIDTH THEN WIDTH - x ELSE 0) ELSE w
        hc == IF y + h > HEIGHT THEN (IF y < HEIGHT THEN HEIGHT - y ELSE 0) ELSE h
    IN  (wc \div 8) * hc

RectPayloadN(flags, x, y, w, h, n) ==
    <<flags>> \o le16(x) \o le16(y) \o le16(w) \o le16(h) \o RectPat(n)

RectPayload(flags, x, y, w, h) ==
    RectPayloadN(flags, x, y, w, h, HostRectCount(x, y, w, h))

Frame(set, P) == Tx(set, "frame", P, Framed(P))
Garbage(set, bytes) == Tx(set, "garbage", << >>, bytes)

\* what a host sends in a session: frames of all four flag combinations (full
\* images; rectangles in the master half, across the overlap column, clamped at
\* the right and bottom edges, misaligned, out of range; a full image one byte
\* short) and garbage (a partial magic, a magic with a plausible length and no
\* more, a magic with a zero or an oversized length, noise, a frame that stops
\* inside its length field or inside its CRC field, a frame with one CRC bit
\* flipped)
SeqPayloads ==
    { FullPayload(0, PatFrame), FullPayload(FLAG_FORCE_FULL, PatFrame),
      FullPayload(0, White),
      RectPayload(FLAG_RECT, 0, 0, 8, 1),
      RectPayload(FLAG_RECT + FLAG_FORCE_FULL, 0, 0, 8, 1),
      RectPayload(FLAG_RECT, 8 * SLAVE_START, 0, 16, 1),
      RectPayload(FLAG_RECT, 8, HEIGHT - 1, WIDTH, HEIGHT),
      RectPayload(FLAG_RECT + FLAG_FORCE_FULL, 8, HEIGHT - 1, WIDTH, HEIGHT),
      RectPayload(FLAG_RECT, 4, 0, 8, 1),
      RectPayload(FLAG_RECT, WIDTH, 0, 8, 1),
      FullPayload(0, SubSeq(PatFrame, 1, FRAME_BYTES - 1)) }

SeqGarbage ==
    { <<77, 87, 70>>, MAGIC \o le32(3), MAGIC \o le32(0),
      MAGIC \o le32(PAYLOAD_CAP + 1), <<0, 255, 77>>,
      MAGIC \o <<3, 0>>, SubSeq(Framed(<<0, 1>>), 1, Len(MAGIC) + 4 + 2 + 2) }

Streams ==
    {Frame("seq", P) : P \in SeqPayloads} \cup {Garbage("seq", b) : b \in SeqGarbage}
    \cup {Tx("seq", "flip", <<0, 1>>, FlipBit(Framed(<<0, 1>>), Len(Framed(<<0, 1>>)), 0))}

(* ------------------------------ the actions ---------------------------- *)

StartupEvents ==
    init(AllIdle, 1) \o clear_to_white(TRUE, AllIdle, 1)

\* a call of the driver's interface: the operation, inited_ before it, its
\* arguments and BUSY during it
Called(op, inited, args, bz) == [op |-> op, inited |-> inited, args |-> args, bz |-> bz]
NoCall == Called("none", FALSE, << >>, AllIdle)

(***************************************************************************)
(* wait_idle statement by statement.  wi is its activation: where it is,    *)
(* its timeout_ms, the polarity the object was constructed with, the ms     *)
(* since start, the level the last gpio_get returned, the polls so far and  *)
(* the value returned.  The BUSY pin is the panel's: every read may see     *)
(* either level.                                                            *)
(***************************************************************************)

WiTimeouts == {0, 5, 12}
SLEEP_MS == 5

\* sleep_ms(5) returns after 5 ms or later
WiSleeps == {SLEEP_MS, SLEEP_MS + 2}

\* the statements between two clock reads take 0 ms or more
WiLags == {0, 1}

WiNone == [at |-> "none", timeout_ms |-> 0, busy_active_high_ |-> TRUE, t |-> 0,
           raw |-> 0, polls |-> 0, ret |-> FALSE]

\* busy = busy_active_high_ ? (raw == 1) : (raw == 0)
WiBusy(raw, busy_active_high_) == IF busy_active_high_ THEN raw = 1 ELSE raw = 0

\* absolute_time_diff_us(start, now) > timeout_ms * 1000
WiExpired_atDeadline(t, timeout_ms) == t >= timeout_ms
WiExpired(t, timeout_ms) == t > timeout_ms

\* entry: start = get_absolute_time()
WiCall ==
    /\ wi.at \in {"none", "ret"}
    /\ \E timeout_ms \in WiTimeouts, hi \in BOOLEAN :
           wi' = [at |-> "poll", timeout_ms |-> timeout_ms, busy_active_high_ |-> hi,
                  t |-> 0, raw |-> 0, polls |-> 0, ret |-> FALSE]
    /\ UNCHANGED <<wire, sent, sync, pc, rbuf, len, got, payload_buf, prev_frame,
                   inited_, panel, serial_out, log, elapsed, pending, call, rx, build>>

\* one pass of the loop up to the sleep: read the pin, return true when it is
\* idle, else read the clock and return false when the deadline has passed
WiPoll ==
    /\ wi.at = "poll"
    /\ \E raw \in {0, 1}, lag \in WiLags :
           LET now == wi.t + lag
               w   == [wi EXCEPT !.raw = raw, !.polls = wi.polls + 1]
           IN  wi' = IF ~WiBusy(raw, wi.busy_active_high_)
                        THEN [w EXCEPT !.at = "ret", !.ret = TRUE]
                     ELSE IF WiExpired(now, wi.timeout_ms)
                        THEN [w EXCEPT !.at = "ret", !.ret = FALSE, !.t = now]
                     ELSE [w EXCEPT !.at = "sleep", !.t = now]
    /\ UNCHANGED <<wire, sent, sync, pc, rbuf, len, got, payload_buf, prev_frame,
                   inited_, panel, serial_out, log, elapsed, pending, call, rx, build>>

\* sleep_ms(5)
WiSleep ==
    /\ wi.at = "sleep"
    /\ \E d \in WiSleeps : wi' = [wi EXCEPT !.at = "poll", !.t = wi.t + d]
    /\ UNCHANGED <<wire, sent, sync, pc, rbuf, len, got, payload_buf, prev_frame,
                   inited_, panel, serial_out, log, elapsed, pending, call, rx, build>>

(***************************************************************************)
(* The USBFrameReceiver object after its constructor.                       *)

(* expected_len_ is the size of a full image, as the constructor's comment   *)
(* says; ret is what the last pass of poll's loop returned.                 *)
(***************************************************************************)

RxNew == [expected_len_ |-> FRAME_BYTES,
          state_ |-> "MAGIC", magic_ |-> <<0, 0, 0, 0>>, magic_pos_ |-> 0,
          len_bytes_ |-> <<0, 0, 0, 0>>, len_pos_ |-> 0, frame_len_ |-> U32Of(0),
          payload_pos_ |-> 0, crc_bytes_ |-> <<0, 0, 0, 0>>, crc_pos_ |-> 0,
          crc_calc_ |-> U32Of(0), buf_ |-> Fill(FRAME_BYTES, 0), ret |-> FALSE]

\* main up to the loop: epd.init(), prev_frame all 0xFF, clear_to_white(),
\* sync all zero
Init ==
    /\ build = DefaultBuild
    /\ wire = << >>
    /\ sent = << >>
    /\ sync = <<0, 0, 0, 0>>
    /\ pc = "seek"
    /\ rbuf = << >>
    /\ len = 0
    /\ got = 0
    /\ payload_buf = Fill(PAYLOAD_CAP, 0)
    /\ prev_frame = Fill(FRAME_BYTES, 255)
    /\ inited_ = TRUE
    /\ panel = PanelApply(PanelReset, StartupEvents, 1)
    /\ serial_out = << >>
    /\ log = << >>
    /\ elapsed = 0
    /\ pending = << >>
    /\ call = NoCall
    /\ wi = WiNone
    /\ rx = RxNew

\* the timeout_ms of the three read_exact calls
LEN_TIMEOUT_MS == 2000
PAYLOAD_TIMEOUT_MS == 8000
CRC_TIMEOUT_MS == 2000
PhaseTimeout(p) ==
    IF p = "len" THEN LEN_TIMEOUT_MS
    ELSE IF p = "payload" THEN PAYLOAD_TIMEOUT_MS ELSE CRC_TIMEOUT_MS

\* a deadline that has passed after half of the timeout
DeadlinePassed_half(ms, timeout_ms) == 2 * ms >= timeout_ms

\* lines 68 and 81: the deadline is make_timeout_time_ms(timeout_ms) at the start
\* of the call, and absolute_time_diff_us(now, deadline) <= 0 ms later
DeadlinePassed(ms, timeout_ms) == ms >= timeout_ms

\* the host writes one transmission; it waits until the loop has read the last one
HostSend(st) ==
    /\ wire = << >>
    /\ pc # "dispatch"
    /\ wire' = st.bytes
    /\ sent' = Append(sent, [st EXCEPT !.pre = prev_frame])
    /\ log' = << >>
    /\ UNCHANGED <<sync, pc, rbuf, len, got, payload_buf, prev_frame, inited_,
                   panel, serial_out, elapsed, pending, call, wi, rx, build>>

HostStream ==
    /\ Len(sent) < MaxSends
    /\ \E st \in Streams : HostSend(st)

\* getchar_timeout_us returned the next byte: the ghost fields of the transmission
Took(outcome, disp) ==
    [sent EXCEPT ![Len(sent)] =
        [@ EXCEPT !.consumed = @ + 1,
                  !.startPc = IF @ = "none" THEN pc ELSE @,
                  !.outcome = IF outcome = "same" THEN @ ELSE outcome,
                  !.dispatched = @ + disp,
                  !.waited = 0]]

\* lines 131-145: one byte into the sync window
SeekByte ==
    /\ pc = "seek"
    /\ wire # << >>
    /\ wire' = Tail(wire)
    /\ sync' = sync_shift(sync, Head(wire))
    /\ pc' = IF MagicMatch(sync') THEN "len" ELSE "seek"
    /\ sent' = Took("same", 0)
    /\ UNCHANGED <<rbuf, len, got, payload_buf, prev_frame, inited_, panel,
                   serial_out, log, pending, call, wi, rx, build>>
    /\ elapsed' = IF pc' = pc THEN elapsed ELSE 0

\* lines 147-152: one byte of len_b; with the fourth, the length check
ReadLenByte ==
    /\ pc = "len"
    /\ wire # << >>
    /\ wire' = Tail(wire)
    /\ LET b == Append(rbuf, Head(wire))
       IN  IF Len(b) < 4
           THEN /\ rbuf' = b
                /\ sent' = Took("same", 0)
                /\ UNCHANGED <<pc, len>>
           ELSE /\ rbuf' = << >>
                /\ IF LenRejected(u32le(b))
                   THEN /\ pc' = "seek"
                        /\ len' = 0
                        /\ sent' = Took("drop_len", 0)
                   ELSE /\ pc' = "payload"
                        /\ len' = U32Lo(u32le(b))
                        /\ sent' = Took("same", 0)
    /\ got' = 0
    /\ UNCHANGED <<sync, payload_buf, prev_frame, inited_, panel, serial_out, log,
                   pending, call, wi, rx, build>>
    /\ elapsed' = IF pc' = pc THEN elapsed ELSE 0

\* line 154: one byte of the payload
ReadPayloadByte ==
    /\ pc = "payload"
    /\ wire # << >>
    /\ wire' = Tail(wire)
    /\ payload_buf' = [payload_buf EXCEPT ![got + 1] = Head(wire)]
    /\ IF got + 1 < len
       THEN /\ got' = got + 1
            /\ pc' = pc
       ELSE /\ got' = 0
            /\ pc' = "crc"
    /\ sent' = Took("same", 0)
    /\ UNCHANGED <<sync, rbuf, len, prev_frame, inited_, panel, serial_out, log,
                   pending, call, wi, rx, build>>
    /\ elapsed' = IF pc' = pc THEN elapsed ELSE 0

\* lines 158-165: one byte of crc_b; with the fourth, the CRC check
ReadCrcByte ==
    /\ pc = "crc"
    /\ wire # << >>
    /\ wire' = Tail(wire)
    /\ LET b == Append(rbuf, Head(wire))
       IN  IF Len(b) < 4
           THEN /\ rbuf' = b
                /\ sent' = Took("same", 0)
                /\ UNCHANGED <<pc, len>>
           ELSE /\ rbuf' = << >>
                /\ IF CrcOk(b, payload_buf, len)
                   THEN /\ pc' = "dispatch"
                        /\ len' = len
                        /\ sent' = Took("dispatch", 1)
                   ELSE /\ pc' = "seek"
                        /\ len' = 0
                        /\ sent' = Took("drop_crc", 0)
    /\ UNCHANGED <<sync, got, payload_buf, prev_frame, inited_, panel, serial_out, log,
                   pending, call, wi, rx, build>>
    /\ elapsed' = IF pc' = pc THEN elapsed ELSE 0

\* a clock that stands still
Tick_frozen ==
    /\ pc \in {"len", "payload", "crc"}
    /\ wire = << >>
    /\ UNCHANGED vars

\* time passes while read_exact polls and finds no byte: the polls of half of the
\* shortest timeout in one step. waited counts the ms since the loop last took a
\* byte.
Tick ==
    /\ pc \in {"len", "payload", "crc"}
    /\ wire = << >>
    /\ ~DeadlinePassed(elapsed, PhaseTimeout(pc))
    /\ elapsed' = elapsed + LEN_TIMEOUT_MS \div 2
    /\ sent' = [sent EXCEPT ![Len(sent)].waited = @ + LEN_TIMEOUT_MS \div 2]
    /\ UNCHANGED <<wire, sync, pc, rbuf, len, got, payload_buf, prev_frame, inited_,
                   panel, serial_out, log, pending, call, wi, rx, build>>

\* a loop that calls read_exact again when it has timed out
ReadTimeout_retry ==
    /\ pc \in {"len", "payload", "crc"}
    /\ wire = << >>
    /\ DeadlinePassed(elapsed, PhaseTimeout(pc))
    /\ elapsed' = 0
    /\ sent' = [sent EXCEPT ![Len(sent)] =
                   [@ EXCEPT !.timedOut = TRUE, !.outcome = "drop_timeout"]]
    /\ UNCHANGED <<wire, sync, pc, rbuf, len, got, payload_buf, prev_frame, inited_,
                   panel, serial_out, log, pending, call, wi, rx, build>>

\* read_exact returns false: a poll found no byte and the deadline of the call
\* had passed; the loop continues in the magic search
ReadTimeout ==
    /\ pc \in {"len", "payload", "crc"}
    /\ wire = << >>
    /\ DeadlinePassed(elapsed, PhaseTimeout(pc))
    /\ pc' = "seek"
    /\ rbuf' = << >>
    /\ len' = 0
    /\ got' = 0
    /\ sent' = [sent EXCEPT ![Len(sent)] =
                   [@ EXCEPT !.timedOut = TRUE, !.outcome = "drop_timeout"]]
    /\ UNCHANGED <<wire, sync, payload_buf, prev_frame, inited_, panel, serial_out, log,
                   pending, call, wi, rx, build>>
    /\ elapsed' = IF pc' = pc THEN elapsed ELSE 0

\* the bytes the events ev write to the serial output
TxBytes(ev) ==
    [i \in 1..Cardinality({j \in 1..Len(ev) : IsTx(ev[j])}) |-> (SelectSeq(ev, IsTx)[i])[3]]

\* lines 167-254: the flags byte, the driver calls, prev_frame, send_ok
Dispatch ==
    /\ pc = "dispatch"
    /\ \E bz \in BusyPlans :
         \E r \in {AppDispatch(payload_buf, len, prev_frame, inited_, bz)} :
             /\ log' = log \o r.ev
             /\ panel' = PanelApply(panel, r.ev, 1)
             /\ prev_frame' = r.prev
             /\ serial_out' = serial_out \o TxBytes(r.ev)
             /\ sent' = [sent EXCEPT ![Len(sent)] =
                            [@ EXCEPT !.outcome = IF r.ack THEN "acked" ELSE "drop_app",
                                      !.acks = @ + (IF r.ack THEN 1 ELSE 0),
                                      !.overrun = @ \/ r.fault]]
    /\ pc' = "seek"
    /\ len' = 0
    /\ UNCHANGED <<wire, sync, rbuf, got, payload_buf, inited_,
                   elapsed, pending, call, wi, rx, build>>

Next ==
    \/ HostStream
    \/ SeekByte
    \/ ReadLenByte
    \/ ReadPayloadByte
    \/ ReadCrcByte
    \/ Tick
    \/ ReadTimeout
    \/ Dispatch

Spec == Init /\ [][Next]_vars

(* --------------------- one stream out of a whole family ---------------- *)

\* payloads of every length the length check lets through
Ramp(n) == [i \in 1..n |-> (37 * i) % 256]
MagicFill(n) == [i \in 1..n |-> MAGIC[((i - 1) % 4) + 1]]
LenPayloads ==
    {Ramp(n) : n \in 1..PAYLOAD_CAP} \cup {MagicFill(n) : n \in 1..PAYLOAD_CAP}
    \cup {Fill(n, 0) : n \in 1..PAYLOAD_CAP}
LenStreams == {Frame("sweep", P) : P \in LenPayloads}

\* rectangle headers: x, y, w and h on, inside and beyond every limit, with the
\* rectangle bytes of the clamped and of the unclamped rectangle
GeoX == {0, 4, 8 * SLAVE_START, WIDTH - 8, WIDTH}
GeoY == {0, HEIGHT - 1, HEIGHT}
GeoW == {0, 4, 8, 16, WIDTH, WIDTH + 8}
GeoH == {0, 1, HEIGHT, HEIGHT + 1}
GeoCounts(x, y, w, h) ==
    {HostRectCount(x, y, w, h)} \cup {n \in {(w \div 8) * h} : n <= FRAME_BYTES}
GeoPayloads ==
    UNION { {RectPayloadN(f, x, y, w, h, n) : n \in GeoCounts(x, y, w, h)} :
            f \in {FLAG_RECT, FLAG_RECT + FLAG_FORCE_FULL},
            x \in GeoX, y \in GeoY, w \in GeoW, h \in GeoH }
GeoStreams == {Frame("sweep", P) : P \in GeoPayloads}

\* a magic, a length field on and beyond each limit of the check (0, the
\* capacity, one more, and values whose low or high half alone looks valid),
\* then more bytes than the buffer holds
LenFieldStreams ==
    { Garbage("lenfield", MAGIC \o l \o Ramp(PAYLOAD_CAP + 5)) :
      l \in { le32(0), le32(1), le32(PAYLOAD_CAP), le32(PAYLOAD_CAP + 1), le32(255),
              <<1, 0, 1, 0>>, <<0, 0, 1, 0>>, <<0, 0, 0, 128>>, <<255, 255, 255, 255>> } }

\* rectangles with valid headers and every number of rectangle bytes from none
\* to a full image, and rect payloads cut inside the header
RectLenPayloads ==
    UNION { {RectPayloadN(f, x, y, w, h, n) : n \in 0..FRAME_BYTES} :
            f \in {FLAG_RECT, FLAG_RECT + FLAG_FORCE_FULL},
            x \in {0, WIDTH - 8}, y \in {0, HEIGHT - 1},
            w \in {8, 16, WIDTH}, h \in {1, HEIGHT} }
    \cup {SubSeq(RectPayloadN(FLAG_RECT, 0, 0, 8, 1, 0), 1, n) : n \in 1..8}
RectLenStreams == {Frame("sweep", P) : P \in RectLenPayloads}

\* every single-bit flip in the payload or the CRC field of three frames
FlipBase ==
    { <<0, 1>>, FullPayload(FLAG_FORCE_FULL, PatFrame),
      RectPayload(FLAG_RECT, 8 * SLAVE_START, 0, 16, 1) }
FlipStreams ==
    UNION { {Tx("sweep", "flip", P, FlipBit(Framed(P), i, b)) :
                i \in (Len(MAGIC) + 4 + 1)..(Len(MAGIC) + 4 + Len(P) + 4), b \in 0..7} :
            P \in FlipBase }

\* what the host may have sent before: an image, so that prev_frame is not white,
\* or garbage that leaves the loop in its magic search or in the middle of a frame
PreludeGarbage ==
    { <<77>>, <<77, 87>>, <<77, 87, 70>>, <<77, 87, 70, 77, 87, 70>>,
      <<49, 70, 87, 77>>, MAGIC \o le32(3) }
Preludes ==
    {Frame("prelude", FullPayload(0, PatFrame))}
    \cup {Garbage("prelude", b) : b \in PreludeGarbage}

HostPrelude ==
    /\ sent = << >>
    /\ \E st \in Preludes : HostSend(st)

HostSweep ==
    /\ sent = << >> \/ (Len(sent) = 1 /\ sent[1].set = "prelude")
    /\ \E st \in (IF sent = << >> THEN LenStreams \cup FlipStreams \cup LenFieldStreams
                  ELSE IF sent[1].kind = "frame"
                  THEN GeoStreams \cup FlipStreams \cup RectLenStreams
                  ELSE LenStreams) :
          HostSend(st)

NextSweep ==
    \/ HostPrelude
    \/ HostSweep
    \/ SeekByte
    \/ ReadLenByte
    \/ ReadPayloadByte
    \/ ReadCrcByte
    \/ Tick
    \/ ReadTimeout
    \/ Dispatch

SpecSweep == Init /\ [][NextSweep]_vars

(* ------------------------- a host that writes slowly -------------------- *)
(* One valid frame whose bytes the host writes one at a time, with any time  *)
(* between two writes.                                                       *)
(***************************************************************************)

HostPace ==
    /\ sent = << >> /\ pending = << >>
    /\ \E st \in { Frame("paced", <<0, 1>>), Frame("paced", FullPayload(0, PatFrame)),
                    Frame("paced", RectPayload(FLAG_RECT, 0, 0, 8, 1)) } :
          /\ sent' = <<[st EXCEPT !.pre = prev_frame]>>
          /\ pending' = st.bytes
    /\ log' = << >>
    /\ UNCHANGED <<wire, sync, pc, rbuf, len, got, payload_buf, prev_frame, inited_,
                   panel, serial_out, elapsed, call, wi, rx, build>>

\* the next byte reaches the device
Deliver ==
    /\ pending # << >>
    /\ wire' = Append(wire, Head(pending))
    /\ pending' = Tail(pending)
    /\ UNCHANGED <<sent, sync, pc, rbuf, len, got, payload_buf, prev_frame, inited_,
                   panel, serial_out, log, elapsed, call, wi, rx, build>>

NextPaced ==
    \/ HostPace
    \/ Deliver
    \/ SeekByte
    \/ ReadLenByte
    \/ ReadPayloadByte
    \/ ReadCrcByte
    \/ Tick
    \/ ReadTimeout
    \/ Dispatch

SpecPaced == Init /\ [][NextPaced]_vars

(* ------------------------------ a fair loop ----------------------------- *)
(* A host that may stall at any byte, and a loop that keeps running: main    *)
(* never sleeps or blocks outside read_exact and the driver, so its          *)
(* next step is taken; with no byte to read that step is a poll that sees    *)
(* the clock further on (Tick) or past the deadline (ReadTimeout).           *)
(***************************************************************************)

\* what the host of the fair loop writes: valid frames, a frame with a wrong
\* CRC, frames cut off in the length, the payload and the CRC, a magic with a
\* length that is refused, and bytes without a magic
StallStreams ==
    { Frame("stall", <<0, 1>>), Frame("stall", FullPayload(FLAG_FORCE_FULL, PatFrame)),
      Frame("stall", RectPayload(FLAG_RECT, 0, 0, 8, 1)),
      Tx("stall", "flip", <<0, 1>>, FlipBit(Framed(<<0, 1>>), Len(Framed(<<0, 1>>)), 0)),
      Garbage("stall", SubSeq(Framed(<<0, 1>>), 1, Len(MAGIC) + 2)),
      Garbage("stall", SubSeq(Framed(<<0, 1>>), 1, Len(MAGIC) + 4 + 1)),
      Garbage("stall", SubSeq(Framed(<<0, 1>>), 1, Len(MAGIC) + 4 + 2 + 3)),
      Garbage("stall", MAGIC \o <<0, 0, 0, 0>> \o MAGIC \o <<1, 0>>),
      Garbage("stall", <<1, 2, 77, 87>>) }

\* the host starts one of them; Deliver hands it over byte by byte, with any
\* time between two bytes
HostStall ==
    /\ sent = << >> /\ pending = << >>
    /\ \E st \in StallStreams :
          /\ sent' = <<[st EXCEPT !.pre = prev_frame]>>
          /\ pending' = st.bytes
    /\ log' = << >>
    /\ UNCHANGED <<wire, sync, pc, rbuf, len, got, payload_buf, prev_frame, inited_,
                   panel, serial_out, elapsed, call, wi, rx, build>>

LoopStep ==
    \/ SeekByte
    \/ ReadLenByte
    \/ ReadPayloadByte
    \/ ReadCrcByte
    \/ Tick
    \/ ReadTimeout
    \/ Dispatch

NextLive ==
    \/ HostStall
    \/ Deliver
    \/ LoopStep

SpecLive == Init /\ [][NextLive]_vars /\ WF_vars(LoopStep)

(* ------------------------- the frame-receiver class --------------------- *)
(* USBFrameReceiver::poll, one pass of its loop per step, on the bytes of    *)
(* wire; what it writes goes to serial_out.                                  *)
(***************************************************************************)

\* putchar_raw('E'); putchar_raw('R'); putchar_raw(code)
send_ack_err(code) == <<69, 82, code>>

\* the class's own crc32_update and crc32_finalize
rx_crc32_update(crc, data) == crc32_bits(U32Xor(crc, U32Of(data)), 8)
crc32_finalize(crc) == U32Not(crc)

RxOut(r, tx, ret) == [rx |-> [r EXCEPT !.ret = ret], tx |-> tx]

\* case State::MAGIC
RxMagic(r, b) ==
    LET m == [r.magic_ EXCEPT ![r.magic_pos_ + 1] = b]
    IN  IF r.magic_pos_ + 1 # 4
        THEN RxOut([r EXCEPT !.magic_ = m, !.magic_pos_ = @ + 1], << >>, FALSE)
        ELSE IF m = MAGIC
        THEN RxOut([r EXCEPT !.magic_ = m, !.magic_pos_ = 4, !.state_ = "LEN",
                             !.len_pos_ = 0], << >>, FALSE)
        ELSE RxOut([r EXCEPT !.magic_ = <<m[2], m[3], m[4], m[4]>>, !.magic_pos_ = 3],
                   << >>, FALSE)

\* case State::LEN
RxLen(r, b) ==
    LET l == [r.len_bytes_ EXCEPT ![r.len_pos_ + 1] = b]
    IN  IF r.len_pos_ + 1 # 4
        THEN RxOut([r EXCEPT !.len_bytes_ = l, !.len_pos_ = @ + 1], << >>, FALSE)
        ELSE IF u32le(l) # U32Of(r.expected_len_)
        THEN RxOut([r EXCEPT !.len_bytes_ = l, !.len_pos_ = 4, !.frame_len_ = u32le(l),
                             !.state_ = "MAGIC", !.magic_pos_ = 0],
                   send_ack_err(1), FALSE)
        ELSE RxOut([r EXCEPT !.len_bytes_ = l, !.len_pos_ = 4, !.frame_len_ = u32le(l),
                             !.payload_pos_ = 0, !.crc_calc_ = U32_ONES,
                             !.state_ = "PAYLOAD"], << >>, FALSE)

\* case State::PAYLOAD
RxPayload(r, b) ==
    LET c == rx_crc32_update(r.crc_calc_, b)
    IN  IF U32Of(r.payload_pos_ + 1) # r.frame_len_
        THEN RxOut([r EXCEPT !.buf_[r.payload_pos_ + 1] = b, !.payload_pos_ = @ + 1,
                             !.crc_calc_ = c], << >>, FALSE)
        ELSE RxOut([r EXCEPT !.buf_[r.payload_pos_ + 1] = b, !.payload_pos_ = @ + 1,
                             !.crc_calc_ = c, !.state_ = "CRC", !.crc_pos_ = 0],
                   << >>, FALSE)

\* case State::CRC
RxCrc(r, b) ==
    LET cb == [r.crc_bytes_ EXCEPT ![r.crc_pos_ + 1] = b]
    IN  IF r.crc_pos_ + 1 # 4
        THEN RxOut([r EXCEPT !.crc_bytes_ = cb, !.crc_pos_ = @ + 1], << >>, FALSE)
        ELSE IF crc32_finalize(r.crc_calc_) # u32le(cb)
        THEN RxOut([r EXCEPT !.crc_bytes_ = cb, !.crc_pos_ = 4,
                             !.state_ = "MAGIC", !.magic_pos_ = 0],
                   send_ack_err(2), FALSE)
        ELSE RxOut([r EXCEPT !.crc_bytes_ = cb, !.crc_pos_ = 4,
                             !.state_ = "MAGIC", !.magic_pos_ = 0], << >>, TRUE)

\* one pass of the loop of poll with the byte b
RxByte(r, b) ==
    CASE r.state_ = "MAGIC" -> RxMagic(r, b)
      [] r.state_ = "LEN" -> RxLen(r, b)
      [] r.state_ = "PAYLOAD" -> RxPayload(r, b)
      [] r.state_ = "CRC" -> RxCrc(r, b)

\* what a host writes to the receiver: a frame of the expected length, a frame
\* of another length, a frame with a wrong CRC, bytes that end inside a magic
RxStreams ==
    { Frame("rx", PatFrame), Frame("rx", <<0, 1>>),
      Tx("rx", "flip", PatFrame, FlipBit(Framed(PatFrame), Len(Framed(PatFrame)), 0)),
      Garbage("rx", <<1, 77, 77, 87>>) }

RxHost ==
    /\ Len(sent) < MaxSends
    /\ \E st \in RxStreams : HostSend(st)

\* lines 27-111 with a byte available
RxPoll ==
    /\ wire # << >>
    /\ wire' = Tail(wire)
    /\ \E o \in {RxByte(rx, Head(wire))} :
          /\ rx' = o.rx
          /\ serial_out' = serial_out \o o.tx
    /\ UNCHANGED <<sent, sync, pc, rbuf, len, got, payload_buf, prev_frame, inited_,
                   panel, log, elapsed, pending, call, wi, build>>

\* lines 27-29: nothing available, poll returns false
RxIdle ==
    /\ wire = << >>
    /\ rx' = [rx EXCEPT !.ret = FALSE]
    /\ UNCHANGED <<wire, sent, sync, pc, rbuf, len, got, payload_buf, prev_frame,
                   inited_, panel, serial_out, log, elapsed, pending, call, wi, build>>

NextRx == RxHost \/ RxPoll \/ RxIdle

SpecRx == Init /\ [][NextRx]_vars

(* ------------------------- the driver on its own ------------------------ *)
(* The public functions of SSD1683_GDEY0579T93 called directly, from the     *)
(* constructed object (inited_ = false) on: a session calls init() once and  *)
(* one display function before it or after it. log holds what the call did.  *)
(***************************************************************************)

InitDriver ==
    /\ build \in Settings
    /\ wire = << >> /\ sent = << >> /\ sync = <<0, 0, 0, 0>> /\ pc = "seek"
    /\ rbuf = << >> /\ len = 0 /\ got = 0
    /\ payload_buf = Fill(PAYLOAD_CAP, 0)
    /\ prev_frame = Fill(FRAME_BYTES, 255)
    /\ inited_ = FALSE
    /\ panel = PanelReset
    /\ serial_out = << >> /\ log = << >> /\ elapsed = 0 /\ pending = << >>
    /\ call = NoCall
    /\ wi = WiNone
    /\ rx = RxNew

\* one call: ev is what it does on the pins, ini the value it leaves in inited_
DrvDo(c, ev, ini) ==
    /\ call' = c
    /\ log' = ev
    /\ inited_' = ini
    /\ panel' = PanelApply(panel, ev, 1)
    /\ UNCHANGED <<wire, sent, sync, pc, rbuf, len, got, payload_buf, prev_frame,
                   serial_out, elapsed, pending, wi, rx, build>>

DrvInit ==
    /\ ~inited_
    /\ \E bz \in BusyPlans : DrvDo(Called("init", inited_, << >>, bz), init(bz, 1), TRUE)

\* the buffers a caller passes
DrvFrames == {PatFrame, White, Ramp(FRAME_BYTES), NULL}

DrvShowFull ==
    /\ call.op \in {"none", "init"}
    /\ \E frame \in DrvFrames, bz \in BusyPlans :
          DrvDo(Called("show_full", inited_, <<frame>>, bz),
                show_full_fullscreen(inited_, frame, bz, 0), inited_)

DrvClearToWhite ==
    /\ call.op \in {"none", "init"}
    /\ \E bz \in BusyPlans :
          DrvDo(Called("clear_to_white", inited_, << >>, bz),
                clear_to_white(inited_, bz, 0), inited_)

DrvShowPartialFull ==
    /\ call.op \in {"none", "init"}
    /\ \E new_frame \in DrvFrames, old_frame \in {White, NULL}, bz \in BusyPlans :
          DrvDo(Called("show_partial_fullscreen", inited_, <<new_frame, old_frame>>, bz),
                show_partial_fullscreen(inited_, new_frame, old_frame, bz, 0), inited_)

DrvShowPartialWindow ==
    /\ call.op \in {"none", "init"}
    /\ \E x \in GeoX, y \in GeoY, w \in GeoW, h \in GeoH, bz \in BusyPlans :
       \E b \in {<<Ramp(FRAME_BYTES), PatFrame>>, <<NULL, PatFrame>>,
                 <<Ramp(FRAME_BYTES), NULL>>} :
          DrvDo(Called("show_partial_window", inited_, <<x, y, w, h, b[1], b[2]>>, bz),
                show_partial_window(inited_, x, y, w, h, b[1], b[2], bz, 0), inited_)

NextDriver ==
    \/ DrvInit
    \/ DrvShowFull
    \/ DrvClearToWhite
    \/ DrvShowPartialFull
    \/ DrvShowPartialWindow

SpecDriver == InitDriver /\ [][NextDriver]_vars

(* ------------------------------ properties ----------------------------- *)

\* the loop has read every byte of transmission t
ReadWhole(t) == t.consumed = Len(t.bytes)

\* t is a valid frame whose first byte the loop read in its magic search, and no
\* read_exact has timed out since
CleanFrame(t) == t.kind = "frame" /\ t.startPc = "seek" /\ ~t.timedOut

NoSpi(ev) == \A i \in 1..Len(ev) : ~IsSpi(ev[i])
NoTx(ev) == \A i \in 1..Len(ev) : ~IsTx(ev[i])

\* C1 (round-trip framing): a frame MWF1 || len || P || crc32(P), 0 < |P| <=
\* FRAME_BYTES + 9, whose first byte is read in the magic search, with any
\* content of the sync window and no timeout, reaches the dispatch point exactly
\* once, when all its 12 + |P| bytes have been read and not before, and there
\* len = |P| and payload_buf[0 .. len) = P.
RoundTripFraming ==
    sent # << >> /\ CleanFrame(Last) =>
        /\ Len(Last.bytes) = 12 + Len(Last.P)
        /\ ~ReadWhole(Last) => Last.dispatched = 0 /\ pc # "dispatch"
        /\ ReadWhole(Last) => Last.dispatched = 1
        /\ pc = "dispatch" =>
              /\ ReadWhole(Last)
              /\ len = Len(Last.P)
              /\ SubSeq(payload_buf, 1, len) = Last.P

\* a payload of the largest length, sent after garbage that left M W F in the sync
\* window, is at the dispatch point
RoundTripReached ==
    /\ Len(sent) = 2
    /\ sent[1].bytes = <<77, 87, 70>>
    /\ CleanFrame(Last)
    /\ Len(Last.P) = PAYLOAD_CAP
    /\ pc = "dispatch"
    /\ SubSeq(payload_buf, 1, len) = Last.P

\* C2, as the spec states it: every valid frame that follows garbage, whatever the
\* garbage, reaches the dispatch point once the loop has read it.
ResyncAfterAnyGarbage ==
    \A k \in 2..Len(sent) :
        /\ sent[k - 1].kind = "garbage"
        /\ sent[k].kind = "frame"
        /\ ReadWhole(sent[k])
        /\ ~sent[k].timedOut
        => sent[k].dispatched = 1

\* C2 (resync), amended: among valid frames and garbage in any order, every valid
\* frame whose first byte the loop reads while it is in its magic search reaches
\* the dispatch point once the loop has read it.
ResyncFromSeek ==
    \A k \in 1..Len(sent) :
        CleanFrame(sent[k]) /\ ReadWhole(sent[k]) => sent[k].dispatched = 1

\* a frame accepted after garbage that held a magic and a plausible length: the
\* wait for that payload timed out before the frame arrived
ResyncReached ==
    /\ Len(sent) = 2
    /\ sent[1].bytes = MAGIC \o le32(3)
    /\ sent[1].timedOut
    /\ CleanFrame(Last)
    /\ Last.dispatched = 1

\* C3 (CRC rejection): a valid frame with one bit of its payload or of its CRC
\* field flipped is dropped at the CRC check: it never reaches the dispatch
\* point, no SPI write is made, no byte is written to the serial output and
\* prev_frame keeps its value.
CrcRejection ==
    sent # << >> /\ Last.kind = "flip" =>
        /\ Last.dispatched = 0
        /\ pc # "dispatch"
        /\ Last.acks = 0
        /\ NoSpi(log) /\ NoTx(log)
        /\ prev_frame = Last.pre
        /\ ReadWhole(Last) => Last.outcome = "drop_crc" /\ pc = "seek"

\* a frame with a flipped bit in its CRC field has been read and dropped, after
\* an image was shown
CrcRejectionReached ==
    /\ Len(sent) = 2
    /\ sent[1].outcome = "acked"
    /\ Last.kind = "flip"
    /\ SubSeq(Last.bytes, 1, 8 + Len(Last.P)) = SubSeq(Framed(Last.P), 1, 8 + Len(Last.P))
    /\ ReadWhole(Last)
    /\ Last.outcome = "drop_crc"

NoMagicIn(b) == \A i \in 1..(Len(b) - 3) : SubSeq(b, i, i + 3) # MAGIC

\* C4 (sync by byte shift): after garbage without the sequence MWF1 (it may end
\* in M W F), read in the magic search, the magic of a valid frame that follows is
\* recognised at the frame's fourth byte, not before, and the frame reaches the
\* dispatch point.
SyncByShift ==
    /\ Len(sent) = 2
    /\ sent[1].kind = "garbage" /\ NoMagicIn(sent[1].bytes)
    /\ Last.kind = "frame"
    =>  /\ Last.consumed < 4 => pc = "seek"
        /\ Last.consumed = 4 => pc = "len"
        /\ Last.consumed >= 1 => Last.startPc = "seek"
        /\ ReadWhole(Last) => Last.dispatched = 1

\* M W F M W F 1 ...: the second M starts the frame
SyncByShiftReached ==
    /\ Len(sent) = 2
    /\ sent[1].bytes = <<77, 87, 70>>
    /\ Last.kind = "frame"
    /\ Last.consumed = 4
    /\ pc = "len"

\* C5 (ACK causality): the bytes O, K of a frame are written after every SPI
\* write of the frame's driver calls: right before them come the update trigger
\* (0x22, its data byte, 0x20) and the wait_idle that follows it, and no SPI write
\* comes after them.
AckCausality ==
    \A i \in 1..Len(log) :
        IsTx(log[i]) =>
            /\ \A j \in i..Len(log) : ~IsSpi(log[j])
            /\ \E k \in 4..(i - 1) :
                  /\ IsWait(log[k])
                  /\ IsCmd(log[k - 1]) /\ log[k - 1][3] = 32
                  /\ IsData(log[k - 2])
                  /\ IsCmd(log[k - 3]) /\ log[k - 3][3] = 34
                  /\ \A j \in (k + 1)..(i - 1) : IsTx(log[j])
                  /\ \A j \in 1..k : ~IsTx(log[j])

\* O, K written for a rectangle frame whose update wait timed out
AckCausalityReached ==
    /\ sent # << >>
    /\ Last.outcome = "acked"
    /\ BitAnd(Last.P[1], FLAG_RECT) # 0
    /\ \E i \in 1..Len(log) : IsTx(log[i])
    /\ \E i \in 1..Len(log) : IsWait(log[i]) /\ log[i][2] = 20000 /\ log[i][3] = 0

\* A payload passes the checks of the application: without the rect flag it is one
\* flags byte and a full image; with it, a header with x and w multiples of 8,
\* w > 0, h > 0, x < WIDTH, y < HEIGHT, and exactly the bytes of the clamped
\* rectangle.
HdrX(P) == P[2] + 256 * P[3]
HdrY(P) == P[4] + 256 * P[5]
HdrW(P) == P[6] + 256 * P[7]
HdrH(P) == P[8] + 256 * P[9]
IsRectPayload(P) == Len(P) >= 1 /\ (P[1] \div 2) % 2 = 1
HeaderValid(P) ==
    /\ Len(P) >= 9
    /\ HdrX(P) % 8 = 0 /\ HdrW(P) % 8 = 0
    /\ HdrW(P) > 0 /\ HdrH(P) > 0
    /\ HdrX(P) < WIDTH /\ HdrY(P) < HEIGHT
ClampedW(P) == IF HdrX(P) + HdrW(P) > WIDTH THEN WIDTH - HdrX(P) ELSE HdrW(P)
ClampedH(P) == IF HdrY(P) + HdrH(P) > HEIGHT THEN HEIGHT - HdrY(P) ELSE HdrH(P)
PassesChecks(P) ==
    IF ~IsRectPayload(P) THEN Len(P) = 1 + FRAME_BYTES
    ELSE HeaderValid(P) /\ Len(P) = 9 + (ClampedW(P) \div 8) * ClampedH(P)

\* C6 (ACK only on success): the serial output is a concatenation of pairs O, K;
\* there is one pair for each frame that passed every check (magic, length, CRC,
\* payload shape, rect alignment and bounds) and none for anything else.
AckOnlyOnSuccess ==
    /\ Len(serial_out) % 2 = 0
    /\ \A i \in 1..Len(serial_out) : serial_out[i] = (IF i % 2 = 1 THEN 79 ELSE 75)
    /\ Len(serial_out) = 2 * Cardinality({k \in 1..Len(sent) : sent[k].acks = 1})
    /\ \A k \in 1..Len(sent) :
          /\ sent[k].acks \in {0, 1}
          /\ sent[k].acks = 1 =>
                sent[k].kind = "frame" /\ sent[k].dispatched = 1 /\ PassesChecks(sent[k].P)
          /\ CleanFrame(sent[k]) /\ ReadWhole(sent[k]) /\ ~(k = Len(sent) /\ pc = "dispatch")
                => (sent[k].acks = 1 <=> PassesChecks(sent[k].P))

\* a frame with a valid CRC and a misaligned rectangle went unanswered after an
\* acknowledged frame
AckOnlyOnSuccessReached ==
    /\ Len(sent) = 2
    /\ sent[1].acks = 1
    /\ CleanFrame(Last) /\ ReadWhole(Last) /\ Last.outcome = "drop_app"
    /\ serial_out = <<79, 75>>

\* C7 (prev_frame invariant): whenever the loop waits for the bytes of a frame,
\* prev_frame is the image on the panel (the controllers' NEW RAM at the last
\* update trigger); it is all 0xFF after start-up.
PrevFrameIsShown ==
    /\ pc # "dispatch" => PanelShows(panel, prev_frame) /\ ~panel.fault
    /\ sent = << >> => prev_frame = White

\* after a full image, a patched rectangle shown by a partial update
PrevFrameIsShownReached ==
    /\ Len(sent) = 2
    /\ sent[1].outcome = "acked" /\ sent[1].P = FullPayload(0, PatFrame)
    /\ Last.outcome = "acked" /\ Last.P[1] = FLAG_RECT
    /\ pc = "seek"
    /\ prev_frame # PatFrame

\* byte i (from 0) of the image lies in the clamped rectangle of header P
InRect(P, i) ==
    /\ (i \div BYTES_PER_ROW) >= HdrY(P)
    /\ (i \div BYTES_PER_ROW) < HdrY(P) + ClampedH(P)
    /\ (i % BYTES_PER_ROW) >= HdrX(P) \div 8
    /\ (i % BYTES_PER_ROW) < (HdrX(P) \div 8) + (ClampedW(P) \div 8)

\* the rectangle byte of payload P that belongs at byte i of the image
RectByteAt(P, i) ==
    P[9 + ((i \div BYTES_PER_ROW) - HdrY(P)) * (ClampedW(P) \div 8)
        + ((i % BYTES_PER_ROW) - (HdrX(P) \div 8)) + 1]

\* C8 (rect patch equivalence): after an accepted RECT frame, with or without
\* FORCE_FULL, with clamped geometry (x, y, w, h), prev_frame[(y + r) *
\* BYTES_PER_ROW + x / 8 + c] = rect_bytes[r * (w / 8) + c] for 0 <= r < h,
\* 0 <= c < w / 8, and every other byte of prev_frame has the value it had before
\* the frame.
RectPatchEquivalence ==
    sent # << >> /\ Last.outcome = "acked" /\ IsRectPayload(Last.P) =>
        \A i \in 0..(FRAME_BYTES - 1) :
            prev_frame[i + 1] = IF InRect(Last.P, i) THEN RectByteAt(Last.P, i)
                                ELSE Last.pre[i + 1]

\* a rectangle of more than one row and less than the full width, patched into
\* an image that was not white
RectPatchReached ==
    /\ Len(sent) = 2
    /\ sent[1].outcome = "acked"
    /\ Last.outcome = "acked" /\ IsRectPayload(Last.P)
    /\ ClampedH(Last.P) > 1
    /\ ClampedW(Last.P) < WIDTH
    /\ \E i \in 0..(FRAME_BYTES - 1) : InRect(Last.P, i) /\ prev_frame[i + 1] # Last.pre[i + 1]
    /\ \E i \in 0..(FRAME_BYTES - 1) : ~InRect(Last.P, i) /\ prev_frame[i + 1] # 255

\* C9 (alignment and bounds rejection): a CRC-valid RECT frame whose header has
\* x % 8 # 0, w % 8 # 0, w = 0, h = 0, x >= WIDTH or y >= HEIGHT is dropped: no
\* SPI write, no change of prev_frame, no byte on the serial output.
RectHeaderRejection ==
    sent # << >> /\ CleanFrame(Last) /\ IsRectPayload(Last.P) /\ Len(Last.P) >= 9
    /\ ~HeaderValid(Last.P) =>
        /\ NoSpi(log) /\ NoTx(log)
        /\ prev_frame = Last.pre
        /\ Last.acks = 0
        /\ ReadWhole(Last) /\ pc # "dispatch" => Last.outcome = "drop_app"

\* a frame with w = 0 and a valid CRC was dropped by the application
RectHeaderRejectionReached ==
    /\ sent # << >>
    /\ CleanFrame(Last) /\ IsRectPayload(Last.P) /\ Len(Last.P) >= 9
    /\ HdrW(Last.P) = 0 /\ HdrX(Last.P) % 8 = 0 /\ HdrX(Last.P) < WIDTH
    /\ HdrH(Last.P) > 0 /\ HdrY(Last.P) < HEIGHT
    /\ Last.dispatched = 1
    /\ Last.outcome = "drop_app"

\* the arguments of the window and counter commands in ev are on the panel:
\* byte columns up to MasterLast (master) and SlaveXMax (slave), rows up to
\* HEIGHT - 1
WindowsOnPanel(ev) ==
    \A i \in 1..Len(ev) :
        IsCmd(ev[i]) =>
            /\ ev[i][3] = 68 => ev[i + 1][3] <= MasterLast /\ ev[i + 2][3] <= MasterLast
            /\ ev[i][3] = 78 => ev[i + 1][3] <= MasterLast
            /\ ev[i][3] = 196 => ev[i + 1][3] <= SlaveXMax /\ ev[i + 2][3] <= SlaveXMax
            /\ ev[i][3] = 206 => ev[i + 1][3] <= SlaveXMax
            /\ ev[i][3] \in {69, 197} =>
                  /\ ev[i + 1][3] + 256 * ev[i + 2][3] <= HEIGHT - 1
                  /\ ev[i + 3][3] + 256 * ev[i + 4][3] <= HEIGHT - 1
            /\ ev[i][3] \in {79, 207} => ev[i + 1][3] + 256 * ev[i + 2][3] <= HEIGHT - 1

\* the bytes written to the NEW RAM of either controller in ev
NewBytes(ev) ==
    {ev[j][3] : j \in {j \in 2..Len(ev) :
        /\ IsData(ev[j])
        /\ \E i \in 1..(j - 1) :
              /\ IsCmd(ev[i]) /\ ev[i][3] \in {36, 164}
              /\ \A m \in (i + 1)..j : IsData(ev[m])}}

\* the rectangle bytes of payload P that lie inside the clamped rectangle
ClampedRectBytes(P) ==
    {P[9 + k] : k \in {k \in 1..((ClampedW(P) \div 8) * ClampedH(P)) : 9 + k <= Len(P)}}

\* C10 (clamping): for a RECT frame with a valid header and x + w > WIDTH or
\* y + h > HEIGHT, w is clamped to WIDTH - x and h to HEIGHT - y: the clamped w is
\* a positive multiple of 8; every byte column and row the driver programs is on
\* the panel and every RAM write stays inside its window; the bytes written to
\* NEW RAM by a partial update are bytes of the clamped rectangle; prev_frame
\* changes only inside the clamped rectangle; a frame that carries more bytes than
\* the clamped rectangle causes no SPI write and no change of prev_frame.
Clamping ==
    sent # << >> /\ CleanFrame(Last) /\ IsRectPayload(Last.P) /\ HeaderValid(Last.P)
    /\ (HdrX(Last.P) + HdrW(Last.P) > WIDTH \/ HdrY(Last.P) + HdrH(Last.P) > HEIGHT) =>
        /\ ClampW(HdrX(Last.P), HdrW(Last.P)) = ClampedW(Last.P)
        /\ ClampH(HdrY(Last.P), HdrH(Last.P)) = ClampedH(Last.P)
        /\ ClampedW(Last.P) > 0 /\ ClampedW(Last.P) % 8 = 0
        /\ HdrX(Last.P) + ClampedW(Last.P) <= WIDTH
        /\ ClampedH(Last.P) > 0 /\ HdrY(Last.P) + ClampedH(Last.P) <= HEIGHT
        /\ WindowsOnPanel(log)
        /\ ~panel.fault /\ ~Last.overrun
        /\ Last.P[1] = FLAG_RECT => NewBytes(log) \subseteq {xform_(b) : b \in ClampedRectBytes(Last.P)}
        /\ \A i \in 0..(FRAME_BYTES - 1) :
              ~InRect(Last.P, i) => prev_frame[i + 1] = Last.pre[i + 1]
        /\ Len(Last.P) # 9 + (ClampedW(Last.P) \div 8) * ClampedH(Last.P) =>
              NoSpi(log) /\ prev_frame = Last.pre /\ Last.acks = 0

\* a rectangle that overhangs the right and the bottom edge, accepted and shown
\* by a partial update after an image that was not white
ClampingReached ==
    /\ Len(sent) = 2
    /\ sent[1].outcome = "acked"
    /\ CleanFrame(Last) /\ IsRectPayload(Last.P) /\ HeaderValid(Last.P)
    /\ Last.P[1] = FLAG_RECT
    /\ HdrX(Last.P) + HdrW(Last.P) > WIDTH
    /\ HdrY(Last.P) + HdrH(Last.P) > HEIGHT
    /\ Last.outcome = "acked"
    /\ NewBytes(log) # {}

\* C11 (RECT length rule): a CRC-valid RECT frame with an aligned, in-range
\* header is accepted if and only if len = 1 + 8 + (w / 8) * h for the clamped w
\* and h; with any other len, and with len < 9, it is dropped: no SPI write, no
\* byte on the serial output, prev_frame as it was.
RectLengthRule ==
    sent # << >> /\ CleanFrame(Last) /\ IsRectPayload(Last.P)
    /\ (Len(Last.P) < 9 \/ HeaderValid(Last.P)) =>
        /\ Last.acks = 1 =>
              /\ Len(Last.P) >= 9
              /\ Len(Last.P) = 1 + 8 + (ClampedW(Last.P) \div 8) * ClampedH(Last.P)
        /\ ReadWhole(Last) /\ pc # "dispatch" =>
              /\ Last.dispatched = 1
              /\ Last.acks = 1 <=>
                    /\ Len(Last.P) >= 9
                    /\ Len(Last.P) = 1 + 8 + (ClampedW(Last.P) \div 8) * ClampedH(Last.P)
              /\ Last.acks = 0 =>
                    /\ Last.outcome = "drop_app"
                    /\ NoSpi(log) /\ NoTx(log)
                    /\ prev_frame = Last.pre

\* a rectangle frame with one byte more than its clamped rectangle was dropped
\* by the application
RectLengthRuleReached ==
    /\ Len(sent) = 2
    /\ CleanFrame(Last) /\ IsRectPayload(Last.P) /\ Len(Last.P) >= 9 /\ HeaderValid(Last.P)
    /\ Len(Last.P) = 1 + 8 + (ClampedW(Last.P) \div 8) * ClampedH(Last.P) + 1
    /\ HdrX(Last.P) + HdrW(Last.P) > WIDTH
    /\ Last.outcome = "drop_app"

\* C12 (length validation): a length field of 0 or above FRAME_BYTES + 9 sends
\* the loop back to the magic search with no payload byte read; for an accepted
\* length every payload byte is stored at an index below FRAME_BYTES + 9, and no
\* other step writes payload_buf.
LenFieldBad ==
    /\ pc = "len" /\ Len(rbuf) = 3 /\ wire # << >>
    /\ LET l == u32le(Append(rbuf, Head(wire)))
       IN  l = <<0, 0>> \/ l[1] > 0 \/ l[2] > FRAME_BYTES + 9
PayloadInBounds ==
    /\ Len(payload_buf) = FRAME_BYTES + 9
    /\ pc \in {"payload", "crc", "dispatch"} => len \in 1..(FRAME_BYTES + 9)
    /\ pc = "payload" => got < len
LengthStep ==
    /\ LenFieldBad /\ wire' # wire =>
          pc' = "seek" /\ payload_buf' = payload_buf /\ Last'.outcome = "drop_len"
    /\ payload_buf' # payload_buf =>
          /\ pc = "payload" /\ got < FRAME_BYTES + 9
          /\ \A i \in 1..(FRAME_BYTES + 9) : i # got + 1 => payload_buf'[i] = payload_buf[i]
LengthValidation == []PayloadInBounds /\ [][LengthStep]_vars

\* a length of FRAME_BYTES + 10 was refused and the bytes behind it went through
\* the magic search
LengthValidationReached ==
    /\ sent # << >> /\ Last.set = "lenfield"
    /\ SubSeq(Last.bytes, 5, 8) = le32(PAYLOAD_CAP + 1)
    /\ Last.outcome = "drop_len" /\ pc = "seek" /\ wire = << >>
    /\ payload_buf = Fill(PAYLOAD_CAP, 0)

\* one SPI byte with DC low (a command) or high (data), framed by CS
SpiC(b) == <<"spi", 0, b>>
SpiD(b) == <<"spi", 1, b>>

\* the NEW bytes the full refresh is said to send for one half: columns c0 ..
\* c0 + MASTER_COLS - 1 outer, rows HEIGHT - 1 down to 0 inner
TraceNew(frame, c0) ==
    [k \in 1..(MASTER_COLS * HEIGHT) |->
        SpiD(xform_(frame[(HEIGHT - 1 - ((k - 1) % HEIGHT)) * BYTES_PER_ROW
                          + c0 + ((k - 1) \div HEIGHT) + 1]))]
TraceZeros == [k \in 1..(MASTER_COLS * HEIGHT) |-> SpiD(0)]
FullTraceSpi(frame) ==
    << SpiC(17), SpiD(5), SpiC(68), SpiD(0), SpiD(MASTER_COLS - 1),
       SpiC(69), SpiD((HEIGHT - 1) % 256), SpiD((HEIGHT - 1) \div 256), SpiD(0), SpiD(0),
       SpiC(78), SpiD(0), SpiC(79), SpiD((HEIGHT - 1) % 256), SpiD((HEIGHT - 1) \div 256),
       SpiC(36) >>
    \o TraceNew(frame, 0) \o <<SpiC(38)>> \o TraceZeros
    \o << SpiC(145), SpiD(4), SpiC(196), SpiD(MASTER_COLS - 1), SpiD(0),
          SpiC(197), SpiD((HEIGHT - 1) % 256), SpiD((HEIGHT - 1) \div 256), SpiD(0), SpiD(0),
          SpiC(206), SpiD(MASTER_COLS - 1),
          SpiC(207), SpiD((HEIGHT - 1) % 256), SpiD((HEIGHT - 1) \div 256),
          SpiC(164) >>
    \o TraceNew(frame, MASTER_COLS - 1) \o <<SpiC(166)>> \o TraceZeros
    \o << SpiC(34), SpiD(247), SpiC(32) >>

\* C13 (command-order trace of full refresh): show_full on an initialized driver
\* sends exactly 0x11/05; 0x44/00,last master column; 0x45/HEIGHT-1 (lo, hi),00,00;
\* 0x4E/00; 0x4F/HEIGHT-1; 0x24 and the NEW bytes of columns 0.. with rows from the
\* bottom up; 0x26 and as many 0x00; the same on the slave with 0x91/04, 0xC4, 0xC5,
\* 0xCE, 0xCF, 0xA4, 0xA6 from the overlap column on; 0x22/F7; 0x20; with a wait
\* for idle before 0x24, before 0xA4 and, of 20000 ms, at the end.
FullRefreshTrace ==
    call.op = "show_full" /\ call.inited /\ call.args[1] # NULL =>
        /\ SelectSeq(log, IsSpi) = FullTraceSpi(call.args[1])
        /\ Len(log) = Len(FullTraceSpi(call.args[1])) + 3
        /\ IsWait(log[16]) /\ log[17] = SpiC(36)
        /\ IsWait(log[2 * MASTER_COLS * HEIGHT + 34])
        /\ log[2 * MASTER_COLS * HEIGHT + 35] = SpiC(164)
        /\ log[Len(log)][1] = "wait" /\ log[Len(log)][2] = 20000

\* a full refresh of the pattern frame during which BUSY never went idle
FullRefreshTraceReached ==
    /\ call.op = "show_full" /\ call.inited /\ call.args[1] = PatFrame
    /\ \A k \in WaitSlots : ~call.bz[k]
    /\ Len(log) > 4 * HEIGHT

\* the data bytes that follow the first command c in ev, up to the next command
\* or wait
RunAfter(ev, c) ==
    LET i == CHOOSE i \in 1..Len(ev) : ev[i] = SpiC(c)
        n == CHOOSE n \in 0..(Len(ev) - i) :
                /\ \A m \in 1..n : IsData(ev[i + m])
                /\ i + n = Len(ev) \/ ~IsData(ev[i + n + 1])
    IN  SubSeq(ev, i + 1, i + n)
CmdCount(ev, c) == Cardinality({i \in 1..Len(ev) : ev[i] = SpiC(c)})

\* the bytes of image img in byte columns c0 .. c1 and rows y_top .. y_bottom as
\* a window write sends them: columns ascending, rows from y_bottom up
ImageRun(img, c0, c1, y_top, y_bottom) ==
    [k \in 1..((c1 - c0 + 1) * (y_bottom - y_top + 1)) |->
        SpiD(xform_(img[(y_bottom - ((k - 1) % (y_bottom - y_top + 1))) * BYTES_PER_ROW
                        + c0 + ((k - 1) \div (y_bottom - y_top + 1)) + 1]))]

\* the rectangle of an accepted payload without FORCE_FULL: the clamped header,
\* or the whole image
PartX(P) == IF IsRectPayload(P) THEN HdrX(P) \div 8 ELSE 0
PartXEnd(P) == IF IsRectPayload(P) THEN PartX(P) + (ClampedW(P) \div 8) - 1 ELSE BYTES_PER_ROW - 1
PartY(P) == IF IsRectPayload(P) THEN HdrY(P) ELSE 0
PartYEnd(P) == IF IsRectPayload(P) THEN HdrY(P) + ClampedH(P) - 1 ELSE HEIGHT - 1

\* C14 (dispatch and OLD-buffer ordering): for an accepted frame, FORCE_FULL
\* without RECT runs clear_to_white and then show_full of the frame; RECT with
\* FORCE_FULL patches prev_frame and then runs clear_to_white and show_full of the
\* patched prev_frame; without FORCE_FULL one partial update runs (trigger 0xFF),
\* of the frame or of the rectangle, and the OLD bytes it sends after 0x26 and
\* 0xA6 are those of prev_frame as it was before the frame, which is patched
\* only afterwards.
DispatchOrdering ==
    sent # << >> /\ Last.outcome = "acked" =>
        LET P == Last.P  spi == SelectSeq(log, IsSpi) IN
        /\ P[1] = FLAG_FORCE_FULL =>
              spi = FullTraceSpi(White) \o FullTraceSpi(SubSeq(P, 2, Len(P)))
        /\ P[1] = FLAG_RECT + FLAG_FORCE_FULL =>
              /\ spi = FullTraceSpi(White) \o FullTraceSpi(prev_frame)
              /\ \A i \in 0..(FRAME_BYTES - 1) : InRect(P, i) => prev_frame[i + 1] = RectByteAt(P, i)
        /\ P[1] \in {0, FLAG_RECT} =>
              /\ CmdCount(log, 34) = 1 /\ RunAfter(log, 34) = <<SpiD(255)>>
              /\ CmdCount(log, 38) = (IF PartX(P) <= MASTER_COLS - 1 THEN 1 ELSE 0)
              /\ CmdCount(log, 166) = (IF PartXEnd(P) >= SLAVE_START THEN 1 ELSE 0)
              /\ PartX(P) <= MASTER_COLS - 1 =>
                    RunAfter(log, 38) =
                        ImageRun(Last.pre, PartX(P),
                                 IF PartXEnd(P) > MASTER_COLS - 1 THEN MASTER_COLS - 1 ELSE PartXEnd(P),
                                 PartY(P), PartYEnd(P))
              /\ PartXEnd(P) >= SLAVE_START =>
                    RunAfter(log, 166) =
                        ImageRun(Last.pre,
                                 IF PartX(P) < SLAVE_START THEN SLAVE_START ELSE PartX(P),
                                 PartXEnd(P), PartY(P), PartYEnd(P))
        /\ P[1] = 0 =>
              /\ RunAfter(log, 36) = ImageRun(SubSeq(P, 2, Len(P)), 0, MASTER_COLS - 1, 0, HEIGHT - 1)
              /\ RunAfter(log, 164) =
                    ImageRun(SubSeq(P, 2, Len(P)), SLAVE_START, BYTES_PER_ROW - 1, 0, HEIGHT - 1)
              /\ prev_frame = SubSeq(P, 2, Len(P))

\* a rectangle across both halves shown by a partial update over an image that
\* was not white, and prev_frame patched where the OLD bytes were read
DispatchOrderingReached ==
    /\ Len(sent) = 2 /\ sent[1].outcome = "acked" /\ Last.outcome = "acked"
    /\ Last.P[1] = FLAG_RECT /\ Last.pre # White
    /\ CmdCount(log, 38) = 1 /\ CmdCount(log, 166) = 1
    /\ \E i \in 0..(FRAME_BYTES - 1) : InRect(Last.P, i) /\ prev_frame[i + 1] # Last.pre[i + 1]

\* read_exact returns false: the loop leaves a read phase without taking a byte
TimeoutDrop == pc \in {"len", "payload", "crc"} /\ pc' = "seek" /\ wire' = wire

\* C15 (phase timeouts) as stated: a frame is dropped by timeout only if the
\* phase has waited the phase timeout (2000, 8000, 2000 ms) for its next byte.
TimeoutIsPerByte == [][TimeoutDrop => Last.waited >= PhaseTimeout(pc)]_vars

\* C15 (phase timeouts), amended: the timeout bounds the whole phase. The clock
\* starts when the phase starts and taking a byte does not restart it; a frame is
\* dropped by timeout only when no byte is there and the phase has lasted its
\* timeout.
PhaseStep ==
    /\ TimeoutDrop => wire = << >> /\ elapsed >= PhaseTimeout(pc)
    /\ pc' # pc => elapsed' = 0
    /\ pc' = pc /\ wire' # wire => elapsed' = elapsed
    /\ elapsed' # elapsed /\ elapsed' # 0 =>
          elapsed' > elapsed /\ wire = << >> /\ pc \in {"len", "payload", "crc"}
TimeoutIsPerPhase == [][PhaseStep]_vars

\* a valid frame whose length field stopped after two bytes was dropped when the
\* loop had waited less than the timeout for the third
TimeoutIsPerPhaseReached ==
    /\ sent # << >> /\ Last.kind = "frame" /\ Last.set = "paced"
    /\ Last.outcome = "drop_timeout" /\ pc = "seek"
    /\ Last.consumed = Len(MAGIC) + 2
    /\ Last.waited > 0 /\ Last.waited < LEN_TIMEOUT_MS
    /\ pending # << >>

Drops == {"drop_len", "drop_crc", "drop_timeout", "drop_app"}

\* the step in which the loop drops what it was reading
DropStep ==
    /\ sent # << >> /\ Len(sent') = Len(sent)
    /\ Last'.outcome \in Drops
    /\ Last'.outcome # Last.outcome \/ Last'.timedOut # Last.timedOut

\* C16 (recovery after a drop): a drop for any reason (length, CRC, timeout in
\* any read phase, application check) leaves the loop in its magic search with
\* the sync window as it was, and a valid frame whose first byte is read after
\* the drop reaches the dispatch point once and is acknowledged when it passes
\* the application's checks.
RecoveryStep ==
    /\ DropStep => pc' = "seek" /\ sync' = sync
    /\ pc # "seek" /\ pc' = "seek" => sync' = sync
RecoveryState ==
    (/\ Len(sent) >= 2 /\ sent[Len(sent) - 1].outcome \in Drops
     /\ Last.kind = "frame" /\ Last.startPc = "seek" /\ ~Last.timedOut
     /\ ReadWhole(Last) /\ pc # "dispatch") =>
        /\ Last.dispatched = 1
        /\ PassesChecks(Last.P) => Last.acks = 1 /\ Last.outcome = "acked"
RecoveryAfterDrop == []RecoveryState /\ [][RecoveryStep]_vars

\* a frame that stopped inside its CRC field was dropped by the timeout and the
\* next frame was acknowledged
RecoveryAfterDropReached ==
    /\ Len(sent) = 2
    /\ sent[1].outcome = "drop_timeout" /\ sent[1].consumed = Len(MAGIC) + 4 + 2 + 2
    /\ Last.startPc = "seek" /\ Last.outcome = "acked"

\* C17 (initialized flag): inited_ is false before init, and after init it is
\* true if and only if the wait for idle that follows the software reset 0x12
\* returned idle within 5000 ms.
InitializedFlag ==
    /\ call.op = "none" => ~inited_
    /\ call.op = "init" =>
          /\ Len(log) >= 2 /\ \E i \in 1..(Len(log) - 1) :
                log[i] = SpiC(18) /\ log[i + 1][1] = "wait" /\ log[i + 1][2] = 5000
          /\ inited_ <=> \E i \in 2..Len(log) : log[i - 1] = SpiC(18) /\ log[i] = <<"wait", 5000, 1>>

\* call c of a display function passes a null buffer
NullArg(c) ==
    \/ c.op = "show_full" /\ c.args[1] = NULL
    \/ c.op = "show_partial_fullscreen" /\ (c.args[1] = NULL \/ c.args[2] = NULL)
    \/ c.op = "show_partial_window" /\ (c.args[5] = NULL \/ c.args[6] = NULL)
DisplayOps == {"show_full", "show_partial_fullscreen", "show_partial_window", "clear_to_white"}

\* C18 (uninitialized driver call is a no-op): show_full, show_partial_full,
\* show_partial_window or clear_to_white called before init, or with a null
\* buffer, writes nothing on SPI, moves no pin and leaves the driver (inited_, and
\* with it the panel) as it was.
UninitStep ==
    call'.op \in DisplayOps /\ (~inited_ \/ NullArg(call')) =>
        log' = << >> /\ inited_' = inited_ /\ panel' = panel
UninitNoOp == [][UninitStep]_vars

\* show_partial_window with a valid rectangle and both buffers, before init
UninitNoOpReached ==
    /\ call.op = "show_partial_window" /\ ~call.inited /\ ~NullArg(call)
    /\ call.args[1] = 0 /\ call.args[2] = 0 /\ call.args[3] = WIDTH /\ call.args[4] = HEIGHT
    /\ log = << >> /\ ~inited_ /\ panel = PanelReset

\* the last call is show_partial_window on an initialized driver with both
\* buffers and a rectangle that passes the driver's checks
ValidWindowCall ==
    /\ call.op = "show_partial_window" /\ call.inited /\ ~NullArg(call)
    /\ call.args[1] % 8 = 0 /\ call.args[3] % 8 = 0
    /\ call.args[3] > 0 /\ call.args[4] > 0
    /\ call.args[1] < WIDTH /\ call.args[2] < HEIGHT

\* the rectangle of that call, clamped to the panel: first and last byte column,
\* top and bottom row
CallXb == call.args[1] \div 8
CallXe ==
    IF call.args[1] + call.args[3] > WIDTH THEN BYTES_PER_ROW - 1
    ELSE CallXb + (call.args[3] \div 8) - 1
CallYTop == call.args[2]
CallYBottom ==
    IF call.args[2] + call.args[4] > HEIGHT THEN HEIGHT - 1
    ELSE call.args[2] + call.args[4] - 1
CallMaster == CallXb <= MASTER_COLS - 1
CallSlave == CallXe >= SLAVE_START

CmdIdx(ev, c) == CHOOSE i \in 1..Len(ev) : ev[i] = SpiC(c)
CmdBytes(ev) == [i \in 1..Len(SelectSeq(ev, IsCmd)) |-> SelectSeq(ev, IsCmd)[i][3]]
YBytes(y) == <<SpiD(y % 256), SpiD(y \div 256)>>

\* the bytes of the rectangle buffer (row stride wb, first column xb, first row
\* y) for byte columns c0 .. c1, columns ascending, rows from y_bottom up
RectRun(rect, wb, xb, y, c0, c1, y_top, y_bottom) ==
    [k \in 1..((c1 - c0 + 1) * (y_bottom - y_top + 1)) |->
        SpiD(xform_(rect[(y_bottom - ((k - 1) % (y_bottom - y_top + 1)) - y) * wb
                         + (c0 + ((k - 1) \div (y_bottom - y_top + 1)) - xb) + 1]))]

\* C19 (windowed partial refresh protocol order): in a valid show_partial_window
\* each non-empty half is window programming (Y start = y_bottom, Y end = y_top,
\* cursor at x_start / y_bottom), wait idle, NEW (0x24 / 0xA4), OLD (0x26 /
\* 0xA6), each with columns ascending and rows from y_bottom down to y_top; the
\* master half comes before the slave half; 0x22, 0xFF, 0x20 and a wait idle come
\* once, after all RAM writes.
PartialProtocolOrder ==
    ValidWindowCall =>
        /\ CmdBytes(log) = (IF CallMaster THEN <<17, 68, 69, 78, 79, 36, 38>> ELSE << >>)
                           \o (IF CallSlave THEN <<145, 196, 197, 206, 207, 164, 166>> ELSE << >>)
                           \o <<34, 32>>
        /\ Waits(log) = (IF CallMaster THEN 1 ELSE 0) + (IF CallSlave THEN 1 ELSE 0) + 1
        /\ SubSeq(log, Len(log) - 3, Len(log) - 1) = <<SpiC(34), SpiD(255), SpiC(32)>>
        /\ IsWait(log[Len(log)])
        /\ CallMaster =>
              /\ RunAfter(log, 69) = YBytes(CallYBottom) \o YBytes(CallYTop)
              /\ RunAfter(log, 78) = <<RunAfter(log, 68)[1]>>
              /\ RunAfter(log, 79) = YBytes(CallYBottom)
              /\ IsWait(log[CmdIdx(log, 36) - 1]) /\ IsData(log[CmdIdx(log, 36) - 2])
              /\ RunAfter(log, 38) =
                    ImageRun(call.args[6], CallXb,
                             IF CallXe > MASTER_COLS - 1 THEN MASTER_COLS - 1 ELSE CallXe,
                             CallYTop, CallYBottom)
              /\ call.args[1] + call.args[3] <= WIDTH =>
                    RunAfter(log, 36) =
                        RectRun(call.args[5], call.args[3] \div 8, CallXb, CallYTop, CallXb,
                                IF CallXe > MASTER_COLS - 1 THEN MASTER_COLS - 1 ELSE CallXe,
                                CallYTop, CallYBottom)
        /\ CallSlave =>
              /\ RunAfter(log, 197) = YBytes(CallYBottom) \o YBytes(CallYTop)
              /\ RunAfter(log, 206) = <<RunAfter(log, 196)[1]>>
              /\ RunAfter(log, 207) = YBytes(CallYBottom)
              /\ IsWait(log[CmdIdx(log, 164) - 1]) /\ IsData(log[CmdIdx(log, 164) - 2])
              /\ RunAfter(log, 166) =
                    ImageRun(call.args[6],
                             IF CallXb < SLAVE_START THEN SLAVE_START ELSE CallXb,
                             CallXe, CallYTop, CallYBottom)
              /\ call.args[1] + call.args[3] <= WIDTH =>
                    RunAfter(log, 164) =
                        RectRun(call.args[5], call.args[3] \div 8, CallXb, CallYTop,
                                IF CallXb < SLAVE_START THEN SLAVE_START ELSE CallXb,
                                CallXe, CallYTop, CallYBottom)

\* a window of the whole panel, both halves, more than one row
PartialProtocolOrderReached ==
    /\ ValidWindowCall /\ CallMaster /\ CallSlave
    /\ CallXb = 0 /\ CallXe = BYTES_PER_ROW - 1 /\ CallYTop = 0 /\ CallYBottom = HEIGHT - 1
    /\ call.args[3] = WIDTH
    /\ Len(log) > 4 * HEIGHT

\* number of data bytes after the first command c of ev (0 when c is not sent)
RunLen(ev, c) == IF CmdCount(ev, c) = 0 THEN 0 ELSE Len(RunAfter(ev, c))

\* the byte columns a half covers according to its window command (0x44: first,
\* last; 0xC4: slave-internal columns, counted down from SLAVE_COLS - 1)
MasterColumns ==
    IF CmdCount(log, 68) = 0 THEN {}
    ELSE RunAfter(log, 68)[1][3]..RunAfter(log, 68)[2][3]
SlaveColumns ==
    IF CmdCount(log, 196) = 0 THEN {}
    ELSE (SLAVE_START + (SLAVE_COLS - 1) - RunAfter(log, 196)[1][3])
         ..(SLAVE_START + (SLAVE_COLS - 1) - RunAfter(log, 196)[2][3])

\* C20 (master/slave column split): for a valid rectangle with byte columns
\* xb .. xe the master half is written iff xb <= MASTER_COLS - 1 and covers
\* xb .. min(xe, MASTER_COLS - 1); the slave half is written iff xe >= SLAVE_START
\* and covers max(xb, SLAVE_START) .. xe; at least one half is written, every
\* column of the rectangle goes to a controller, the overlap column to both and
\* every other to one; each written half sends columns * h NEW bytes and as many
\* OLD bytes.
ColumnSplit ==
    ValidWindowCall =>
        LET h == CallYBottom - CallYTop + 1 IN
        /\ 0 <= CallXb /\ CallXb <= CallXe /\ CallXe <= BYTES_PER_ROW - 1
        /\ CmdCount(log, 68) = (IF CallXb <= MASTER_COLS - 1 THEN 1 ELSE 0)
        /\ CmdCount(log, 196) = (IF CallXe >= SLAVE_START THEN 1 ELSE 0)
        /\ CmdCount(log, 36) = CmdCount(log, 68) /\ CmdCount(log, 38) = CmdCount(log, 68)
        /\ CmdCount(log, 164) = CmdCount(log, 196) /\ CmdCount(log, 166) = CmdCount(log, 196)
        /\ MasterColumns = {c \in CallXb..CallXe : c <= MASTER_COLS - 1}
        /\ SlaveColumns = {c \in CallXb..CallXe : c >= SLAVE_START}
        /\ MasterColumns \cup SlaveColumns = CallXb..CallXe
        /\ MasterColumns \cap SlaveColumns = {SLAVE_START} \cap (CallXb..CallXe)
        /\ MasterColumns # {} \/ SlaveColumns # {}
        /\ RunLen(log, 36) = Cardinality(MasterColumns) * h
        /\ RunLen(log, 38) = Cardinality(MasterColumns) * h
        /\ RunLen(log, 164) = Cardinality(SlaveColumns) * h
        /\ RunLen(log, 166) = Cardinality(SlaveColumns) * h

\* a rectangle of the overlap column and the one after it: one column to the
\* master, two to the slave
ColumnSplitReached ==
    /\ ValidWindowCall
    /\ CallXb = SLAVE_START /\ CallXe = SLAVE_START + 1
    /\ MasterColumns = {SLAVE_START} /\ SlaveColumns = {SLAVE_START, SLAVE_START + 1}
    /\ RunLen(log, 164) = 2 * RunLen(log, 36)

\* C21 (slave X mapping): when show_partial_window writes the slave half for
\* global columns s_start .. s_end, the two data bytes after 0xC4 are
\* (SLAVE_COLS - 1) - (s_start - SLAVE_START) and (SLAVE_COLS - 1) - (s_end -
\* SLAVE_START), the byte after 0xCE is the first of them, all lie in 0 ..
\* SLAVE_COLS - 1, and for the full-screen rectangle they are the values
\* (SLAVE_COLS - 1, 0) and SLAVE_COLS - 1 that show_full programs.
SlaveXMapping ==
    ValidWindowCall /\ CallSlave =>
        LET s_start == IF CallXb < SLAVE_START THEN SLAVE_START ELSE CallXb
            s_end == CallXe
            a == (SLAVE_COLS - 1) - (s_start - SLAVE_START)
            b == (SLAVE_COLS - 1) - (s_end - SLAVE_START)
        IN  /\ SLAVE_START <= s_start /\ s_start <= s_end /\ s_end <= BYTES_PER_ROW - 1
            /\ RunAfter(log, 196) = <<SpiD(a), SpiD(b)>>
            /\ RunAfter(log, 206) = <<SpiD(a)>>
            /\ a \in 0..(SLAVE_COLS - 1) /\ b \in 0..(SLAVE_COLS - 1)
            /\ CallXb = 0 /\ CallXe = BYTES_PER_ROW - 1 =>
                  /\ RunAfter(log, 196) = <<SpiD(SLAVE_COLS - 1), SpiD(0)>>
                  /\ RunAfter(log, 196) = RunAfter(slave_addr_setup_, 196)
                  /\ RunAfter(log, 206) = RunAfter(slave_addr_setup_, 206)

\* a slave window that starts right of the overlap column
SlaveXMappingReached ==
    /\ ValidWindowCall /\ CallSlave
    /\ CallXb = BYTES_PER_ROW - 1
    /\ RunAfter(log, 196) = <<SpiD(0), SpiD(0)>>


(***************************************************************************)
(* wait_idle on its own: calls with every timeout and polarity, BUSY free   *)
(* at every poll.  A running function executes its next statement, and      *)
(* sleep_ms returns because the monotonic clock advances: weak fairness of  *)
(* the two steps.                                                           *)
(***************************************************************************)

NextWait == WiCall \/ WiPoll \/ WiSleep

SpecWait == Init /\ [][NextWait]_vars /\ WF_vars(WiPoll) /\ WF_vars(WiSleep)

WiReturned == wi.at = "ret"

\* C22 (wait_idle result): wait_idle polls BUSY at least once; it returns true
\* exactly when the poll it returns from saw BUSY idle under the configured
\* polarity; it returns false only after a poll that saw BUSY active with more
\* than timeout_ms elapsed since entry; it writes nothing to SPI; and every
\* call returns.
WaitIdleResult ==
    /\ [](WiReturned =>
            /\ wi.polls >= 1
            /\ wi.ret <=> (wi.raw = IF wi.busy_active_high_ THEN 0 ELSE 1)
            /\ ~wi.ret => /\ wi.raw = IF wi.busy_active_high_ THEN 1 ELSE 0
                          /\ wi.t > wi.timeout_ms)
    /\ [][log' = log /\ panel' = panel]_vars
    /\ (wi.at = "poll" ~> WiReturned)

WaitIdleResultReached ==
    /\ WiReturned /\ ~wi.ret /\ wi.polls >= 2
    /\ ~wi.busy_active_high_ /\ wi.timeout_ms > 0

\* what a dispatch added to log
Dispatched == SubSeq(log', Len(log) + 1, Len(log'))

TimedOutWait(e) == e[1] = "wait" /\ e[3] = 0
SameButWaits(ev, idle) ==
    /\ Len(ev) = Len(idle)
    /\ \A i \in 1..Len(ev) :
          IF ev[i][1] = "wait" THEN idle[i] = <<"wait", ev[i][2], 1>> ELSE ev[i] = idle[i]

\* the dispatch step compared with the same dispatch when BUSY is always idle
BusyStep ==
    pc = "dispatch" /\ pc' = "seek" =>
        \A idle \in {AppDispatch(payload_buf, len, prev_frame, inited_, AllIdle)} :
            /\ SameButWaits(Dispatched, idle.ev)
            /\ prev_frame' = idle.prev
            /\ serial_out' = serial_out \o TxBytes(idle.ev)
            /\ idle.ack => TxBytes(idle.ev) = <<79, 75>>
            /\ panel' = PanelApply(panel, idle.ev, 1)

\* C23 (BUSY timeout does not abort): whichever wait_idle calls of a dispatch
\* time out, the events of the dispatch are those of the same dispatch with
\* BUSY idle, wait results apart: the same SPI bytes in the same order, the
\* same prev_frame afterwards, the same OK, and the loop is back in its magic
\* search.
BusyTimeoutDoesNotAbort == [][BusyStep]_vars

\* a frame was acknowledged although a wait_idle of its refresh timed out
BusyTimeoutDoesNotAbortReached ==
    /\ sent # << >> /\ Last.outcome = "acked" /\ pc = "seek"
    /\ \E i \in 1..Len(log) : TimedOutWait(log[i])
    /\ \E i \in 1..Len(log) : log[i] = <<"spi", 0, 32>>
    /\ prev_frame = SubSeq(Last.P, 2, 1 + FRAME_BYTES)

\* C24 (no wedged parser): whatever the host writes and however it stalls,
\* and whatever BUSY does, a loop that has left the magic search is back in it
\* later; between the two the deadline of the phase bounds the time without a
\* byte.
NoWedgedParser ==
    /\ (pc # "seek") ~> (pc = "seek")
    /\ [](elapsed <= PAYLOAD_TIMEOUT_MS)

\* a frame whose bytes stopped coming was abandoned, the loop is searching again
NoWedgedParserReached ==
    /\ sent # << >> /\ Last.timedOut /\ pc = "seek"
    /\ Last.kind = "frame" /\ pending # << >>

\* a pass of poll's loop that gives a frame up: from LEN or CRC back to MAGIC
\* without returning true
RxDiscards == rx.state_ \in {"LEN", "CRC"} /\ rx'.state_ = "MAGIC" /\ ~rx'.ret

\* poll returns true only with a payload of the expected length in buf_ whose
\* CRC-32 is the one received
RxAcceptsOnlyMatching ==
    rx.ret => /\ rx.state_ = "MAGIC" /\ rx.magic_pos_ = 0
              /\ rx.frame_len_ = U32Of(rx.expected_len_)
              /\ u32le(rx.crc_bytes_) = crc32_compute(rx.buf_)

\* C25 (silent discard in the frame-receiver class): a pass of poll that
\* discards a frame, for its length or for its CRC, writes nothing to the
\* serial output and leaves the receiver in MAGIC; poll returns true only for
\* a frame whose CRC matched.
SilentDiscard ==
    [][/\ RxDiscards => serial_out' = serial_out
       /\ rx'.ret => u32le(rx'.crc_bytes_) = crc32_compute(rx'.buf_)]_vars

\* the last call is a full refresh that ran: the image it was given
FullCall ==
    /\ call.inited
    /\ \/ call.op = "clear_to_white"
       \/ call.op = "show_full" /\ call.args[1] # NULL
FullCallFrame == IF call.op = "show_full" THEN call.args[1] ELSE Fill(FRAME_BYTES, 255)

\* n OLD fill bytes, each xform of the 0x00 the driver clears OLD RAM to
TraceFill(n) == [k \in 1..n |-> SpiD(xform_(0))]

\* the NEW and OLD runs of a window that is not clamped at the right edge are
\* xform of the rectangle's and of the old image's bytes
WindowRunsTransformed ==
    ValidWindowCall /\ call.args[1] + call.args[3] <= WIDTH =>
        /\ CallMaster =>
              /\ RunAfter(log, 36) =
                    RectRun(call.args[5], call.args[3] \div 8, CallXb, CallYTop, CallXb,
                            IF CallXe > MASTER_COLS - 1 THEN MASTER_COLS - 1 ELSE CallXe,
                            CallYTop, CallYBottom)
              /\ RunAfter(log, 38) =
                    ImageRun(call.args[6], CallXb,
                             IF CallXe > MASTER_COLS - 1 THEN MASTER_COLS - 1 ELSE CallXe,
                             CallYTop, CallYBottom)
        /\ CallSlave =>
              /\ RunAfter(log, 164) =
                    RectRun(call.args[5], call.args[3] \div 8, CallXb, CallYTop,
                            IF CallXb < SLAVE_START THEN SLAVE_START ELSE CallXb,
                            CallXe, CallYTop, CallYBottom)
              /\ RunAfter(log, 166) =
                    ImageRun(call.args[6],
                             IF CallXb < SLAVE_START THEN SLAVE_START ELSE CallXb,
                             CallXe, CallYTop, CallYBottom)

\* the NEW runs of a full refresh are xform of the image's bytes
FullNewTransformed ==
    FullCall =>
        /\ RunAfter(log, 36) = TraceNew(FullCallFrame, 0)
        /\ RunAfter(log, 164) = TraceNew(FullCallFrame, SLAVE_START)

\* C26 (uniform byte transform): under every setting of BIT_REVERSE and
\* INVERT_BYTES every data byte after 0x24, 0x26, 0xA4 or 0xA6 is xform of its
\* source byte: the image bytes and the 0x00 OLD fill of show_full and
\* clear_to_white, the rectangle and old-image bytes of show_partial_window.
UniformTransform ==
    /\ WindowRunsTransformed
    /\ FullNewTransformed
    /\ FullCall =>
          /\ RunAfter(log, 38) = TraceFill(MASTER_COLS * HEIGHT)
          /\ RunAfter(log, 166) = TraceFill(SLAVE_COLS * HEIGHT)

\* the same with the build's own setting of the two flags
UniformTransformAsBuilt == build = DefaultBuild => UniformTransform

\* a step with an effect: prev_frame written, an SPI byte, a pin or a wait in
\* what the step added to log, the panel or inited_ changed
Effect ==
    \/ prev_frame' # prev_frame
    \/ panel' # panel
    \/ inited_' # inited_
    \/ \E i \in (Len(log) + 1)..Len(log') : log'[i][1] \in {"spi", "rst", "wait"}

\* effects come only with the step that accepts a frame and acknowledges it; a
\* step that drops has none and writes nothing to the serial output
RejectionStep ==
    /\ Effect => /\ pc = "dispatch" /\ Last'.outcome = "acked"
                 /\ Last'.acks = Last.acks + 1
                 /\ serial_out' = serial_out \o <<79, 75>>
    /\ DropStep => ~Effect /\ serial_out' = serial_out

\* a transmission in which nothing was accepted has left no trace
RejectionState ==
    sent # << >> /\ Last.acks = 0 =>
        /\ prev_frame = Last.pre
        /\ \A i \in 1..Len(log) : log[i][1] \notin {"spi", "rst", "wait"}

\* C27 (rejection has no effect): from the start of a frame the loop drops (by
\* timeout, length, CRC, payload size or rectangle geometry) to its return to
\* the magic search prev_frame is unchanged and nothing is done to the panel: no
\* SPI byte, no pin, no update trigger; every effect is in the step that accepts
\* a frame, after all checks.
RejectionHasNoEffect == []RejectionState /\ [][RejectionStep]_vars

\* a rectangle frame dropped by the application's checks after an accepted frame
\* had changed prev_frame
RejectionHasNoEffectReached ==
    /\ Len(sent) = 2 /\ sent[1].outcome = "acked" /\ Last.outcome = "drop_app"
    /\ IsRectPayload(Last.P) /\ pc = "seek"
    /\ prev_frame = Last.pre /\ prev_frame # White /\ log = << >>

\* the NEW runs of the last call when rect_new has row stride wb
NewRunsWithStride(wb) ==
    /\ CallMaster =>
          RunAfter(log, 36) =
              RectRun(call.args[5], wb, CallXb, CallYTop, CallXb,
                      IF CallXe > MASTER_COLS - 1 THEN MASTER_COLS - 1 ELSE CallXe,
                      CallYTop, CallYBottom)
    /\ CallSlave =>
          RunAfter(log, 164) =
              RectRun(call.args[5], wb, CallXb, CallYTop,
                      IF CallXb < SLAVE_START THEN SLAVE_START ELSE CallXb,
                      CallXe, CallYTop, CallYBottom)

\* the caller's rectangle, w/8 bytes by h rows, lies inside the buffer it passed
CallerRectFits == (call.args[3] \div 8) * call.args[4] <= Len(call.args[5])

\* C28 (rectangle buffer layout of the driver API): the NEW byte sent for byte
\* column g and row r is xform(rect_new[(r - y) * (w/8) + (g - x/8)]) with the w
\* the caller passed, also when x + w > WIDTH and the driver clamps.
RectBufferLayout ==
    ValidWindowCall /\ CallerRectFits => NewRunsWithStride(call.args[3] \div 8)

\* what the driver does: the row stride is the clamped width
RectBufferLayoutClamped ==
    ValidWindowCall /\ CallerRectFits => NewRunsWithStride(CallXe - CallXb + 1)

\* the last transmission is a frame the loop accepted
Accepted == sent # << >> /\ Last.kind = "frame" /\ Last.outcome = "acked" /\ pc = "seek"

\* an accepted rectangle frame that went to show_partial_window
AcceptedWindow == Accepted /\ IsRectPayload(Last.P) /\ Last.P[1] % 2 = 0

\* the (gcol, yy) pairs the window writes of that frame loop over
WindowCells ==
    LET g == PwGeom(HdrX(Last.P), HdrY(Last.P), ClampedW(Last.P), ClampedH(Last.P))
    IN  ((IF g.do_master THEN g.m_start..g.m_end ELSE {})
         \cup (IF g.do_slave THEN g.s_start..g.s_end ELSE {}))
        \X (g.y_top..g.y_bottom)

\* the offsets in prev_frame the patch loop of an accepted rectangle writes
PatchOffsets ==
    {(HdrY(Last.P) + yy) * BYTES_PER_ROW + (HdrX(Last.P) \div 8) + k :
        yy \in 0..(ClampedH(Last.P) - 1), k \in 0..((ClampedW(Last.P) \div 8) - 1)}

\* C29 (buffer bounds): for an accepted frame every rect_new index the window
\* writes use is below (w/8) * h of the clamped rectangle, which is inside the
\* received payload; every old_full and frame index is below FRAME_BYTES (no
\* data byte comes from outside a buffer); every patch write is below
\* FRAME_BYTES; and the row loops end when y_top = 0, having sent one byte per
\* column and row.
BufferBounds ==
    /\ Accepted =>
          /\ ~Last.overrun
          /\ \A i \in 1..Len(log) : IsData(log[i]) => log[i][3] \in 0..255
          /\ prev_frame \in [1..FRAME_BYTES -> 0..255]
    /\ Accepted /\ IsRectPayload(Last.P) =>
          /\ PatchOffsets # {}
          /\ \A o \in PatchOffsets : 0 <= o /\ o < FRAME_BYTES
    /\ AcceptedWindow =>
          /\ 9 + (ClampedW(Last.P) \div 8) * ClampedH(Last.P) = Len(Last.P)
          /\ \A c \in WindowCells :
                /\ RectIndex(c[1], c[2], HdrX(Last.P) \div 8, HdrY(Last.P),
                             ClampedW(Last.P) \div 8) \in
                       0..((ClampedW(Last.P) \div 8) * ClampedH(Last.P) - 1)
                /\ OldIndex(c[1], c[2]) \in 0..(FRAME_BYTES - 1)
          /\ RunLen(log, 36) + RunLen(log, 164) >= Cardinality(WindowCells)
          /\ RunLen(log, 36) + RunLen(log, 164) <= 2 * Cardinality(WindowCells)
          /\ RunLen(log, 38) = RunLen(log, 36) /\ RunLen(log, 166) = RunLen(log, 164)

\* an accepted rectangle from row 0 clamped at the right and bottom edges
BufferBoundsReached ==
    /\ AcceptedWindow /\ HdrY(Last.P) = 0
    /\ HdrX(Last.P) + HdrW(Last.P) > WIDTH /\ HdrH(Last.P) > HEIGHT
    /\ ClampedH(Last.P) = HEIGHT

=============================================================================
